---- MODULE Spec2Model ----
(***************************************************************************)
(* Extraction-and-arbitration pipeline of pdf_parser_app                   *)
(* (app/pipeline/universal_parser.py and the seven parsing strategies).    *)
(*                                                                         *)
(* Text is modelled character by character: a string is a tuple of Unicode *)
(* code points, so that str.lower(), str.strip(), len(), the `in`          *)
(* substring test and the regular expressions of the validators are        *)
(* computed the way Python computes them.  Amounts (qty, price, total) are *)
(* integers; confidences are in hundredths (0.95 is 95).                   *)
(***************************************************************************)
EXTENDS Integers, Sequences, FiniteSets, TLC

(***************************************************************************)
(* Bounds of the model.                                                    *)
(***************************************************************************)
\* largest number of rows/lines of one document that carry a candidate item
MaxRows == 3
\* longest item list handed to _deduplicate_items in SpecDedup
MaxLen == 3
\* largest number written in a cell or field of the rows given to the row parsers
MaxAmount == 3
\* longest string given to _parse_number in SpecNumber
MaxStr == 5
\* longest header row built from the header cells in SpecColumns
MaxCols == 3
\* longest list of tables given to _check_text_quality in SpecQuality
MaxTables == 2
\* largest number of images of one PDF in SpecEnhance
MaxImages == 2

\* phrases in the text of a document whose type is detected
MaxPhrases == 3

(***************************************************************************)
(* Characters and strings.                                                 *)
(***************************************************************************)
\* str.lower() on one code point: A-Z, А-Я (U+0410..U+042F) and Ё (U+0401)
LowerChar(c) ==
  IF c >= 65 /\ c <= 90 THEN c + 32
  ELSE IF c >= 1040 /\ c <= 1071 THEN c + 32
  ELSE IF c = 1025 THEN 1105
  ELSE c

\* str.lower()
Lower(s) == [i \in 1..Len(s) |-> LowerChar(s[i])]

\* the whitespace str.strip() removes: space, \t, \n, \r and no-break space
IsSpace(c) == c \in {32, 9, 10, 13, 160}

\* str.strip(): drop leading and trailing whitespace
Strip(s) ==
  LET keep == {i \in 1..Len(s) : ~IsSpace(s[i])}
  IN  IF keep = {} THEN <<>>
      ELSE LET lo == CHOOSE i \in keep : \A j \in 1..(i - 1) : IsSpace(s[j])
               hi == CHOOSE i \in keep : \A j \in (i + 1)..Len(s) : IsSpace(s[j])
           IN  SubSeq(s, lo, hi)

\* Python `w in s` for strings: w occurs in s as a contiguous substring
Contains(s, w) ==
  \/ w = <<>>
  \/ \E i \in 1..(Len(s) - Len(w) + 1) :
        s[i] = w[1] /\ SubSeq(s, i, i + Len(w) - 1) = w

\* any(word in s for word in words)
ContainsAny(s, words) == \E w \in words : Contains(s, w)

\* char.isalpha() for the Latin and Cyrillic letters
IsAlpha(c) ==
  \/ (c >= 65 /\ c <= 90) \/ (c >= 97 /\ c <= 122)
  \/ (c >= 1040 /\ c <= 1103) \/ c = 1025 \/ c = 1105

\* \d of the re module
IsDigit(c) == c >= 48 /\ c <= 57

\* the class [а-яёa-z] under re.IGNORECASE
IsLetterClass(c) ==
  LET l == LowerChar(c)
  IN  (l >= 1072 /\ l <= 1103) \/ l = 1105 \/ (l >= 97 /\ l <= 122)

\* re.search(r'[а-яёa-z]{2,}', s, re.IGNORECASE)
HasTwoLetters(s) ==
  \E i \in 1..(Len(s) - 1) : IsLetterClass(s[i]) /\ IsLetterClass(s[i + 1])

\* re.search(r'[а-яёa-z]', s, re.IGNORECASE)
HasLetter(s) == \E i \in 1..Len(s) : IsLetterClass(s[i])

\* re.search(r'\d+[х×]\d+', s): a digit, then х (U+0445) or × (U+00D7), then a digit
HasDimension(s) ==
  \E i \in 1..(Len(s) - 2) :
     IsDigit(s[i]) /\ s[i + 1] \in {1093, 215} /\ IsDigit(s[i + 2])

\* re.search(r'\d+[кмлшт]', s): a digit followed by к, м, л, ш or т
HasUnitSuffix(s) ==
  \E i \in 1..(Len(s) - 1) :
     IsDigit(s[i]) /\ s[i + 1] \in {1082, 1084, 1083, 1096, 1090}

\* documents one parser object parses one after another
MaxDocs == 2

\* structured blocks in the text of a document
MaxBlocks == 2

\* rows and lines of a document whose items get a confidence
MaxUnits == 2

\* the greatest number in a group of a pattern match
MaxQty == 2

\* files selected in the main window
MaxFiles == 3
(***************************************************************************)
(* Word lists of the source, as code-point tuples.                         *)
(***************************************************************************)
\* service_words of the arbitration loop:
\*   'инн', 'кпп', 'счет', 'банк', 'бик', 'р/с', 'к/с', 'получатель', 'плательщик', 'итого', 'всего', 'сумма', 'ндс', 'четыре', 'миллио', 'на восе', 'мьдесят', 'ве тысячи', 'шестьсот', 'ьдесят', 'семь ру', 'блей', 'копеек', 'копорское', 'шоссе', 'дом', 'корпус', 'комната', 'указанные', 'цены', 'скидки', 'действуют', 'апреля', 'в течение', 'дн'
arbitration_service_words ==
  { <<1080, 1085, 1085>>,
    <<1082, 1087, 1087>>,
    <<1089, 1095, 1077, 1090>>,
    <<1073, 1072, 1085, 1082>>,
    <<1073, 1080, 1082>>,
    <<1088, 47, 1089>>,
    <<1082, 47, 1089>>,
    <<1087, 1086, 1083, 1091, 1095, 1072, 1090, 1077, 1083, 1100>>,
    <<1087, 1083, 1072, 1090, 1077, 1083, 1100, 1097, 1080, 1082>>,
    <<1080, 1090, 1086, 1075, 1086>>,
    <<1074, 1089, 1077, 1075, 1086>>,
    <<1089, 1091, 1084, 1084, 1072>>,
    <<1085, 1076, 1089>>,
    <<1095, 1077, 1090, 1099, 1088, 1077>>,
    <<1084, 1080, 1083, 1083, 1080, 1086>>,
    <<1085, 1072, 32, 1074, 1086, 1089, 1077>>,
    <<1084, 1100, 1076, 1077, 1089, 1103, 1090>>,
    <<1074, 1077, 32, 1090, 1099, 1089, 1103, 1095, 1080>>,
    <<1096, 1077, 1089, 1090, 1100, 1089, 1086, 1090>>,
    <<1100, 1076, 1077, 1089, 1103, 1090>>,
    <<1089, 1077, 1084, 1100, 32, 1088, 1091>>,
    <<1073, 1083, 1077, 1081>>,
    <<1082, 1086, 1087, 1077, 1077, 1082>>,
    <<1082, 1086, 1087, 1086, 1088, 1089, 1082, 1086, 1077>>,
    <<1096, 1086, 1089, 1089, 1077>>,
    <<1076, 1086, 1084>>,
    <<1082, 1086, 1088, 1087, 1091, 1089>>,
    <<1082, 1086, 1084, 1085, 1072, 1090, 1072>>,
    <<1091, 1082, 1072, 1079, 1072, 1085, 1085, 1099, 1077>>,
    <<1094, 1077, 1085, 1099>>,
    <<1089, 1082, 1080, 1076, 1082, 1080>>,
    <<1076, 1077, 1081, 1089, 1090, 1074, 1091, 1102, 1090>>,
    <<1072, 1087, 1088, 1077, 1083, 1103>>,
    <<1074, 32, 1090, 1077, 1095, 1077, 1085, 1080, 1077>>,
    <<1076, 1085>> }
\* product keywords of the arbitration loop:
\*   'кабель', 'сип', 'провод', 'перевозка', 'транспорт'
arbitration_product_words ==
  { <<1082, 1072, 1073, 1077, 1083, 1100>>,
    <<1089, 1080, 1087>>,
    <<1087, 1088, 1086, 1074, 1086, 1076>>,
    <<1087, 1077, 1088, 1077, 1074, 1086, 1079, 1082, 1072>>,
    <<1090, 1088, 1072, 1085, 1089, 1087, 1086, 1088, 1090>> }
\* service_words of _validate_universal_item:
\*   'инн', 'кпп', 'счет', 'банк', 'бик', 'р/с', 'к/с', 'получатель', 'плательщик', 'оплата', 'платеж', 'договор', 'счет на оплату', 'коммерческое предложение', 'итого', 'всего', 'сумма', 'назначение', 'важно', 'примечание', 'примечания', 'подготовлено', 'для', 'от', 'дата', 'номер', 'адрес', 'телефон', 'email', 'россия', 'область', 'край', 'город', 'улица', 'дом', 'корпус', 'комната', 'почтовое', 'индекс', 'код', 'вид', 'срок', 'плат', 'наз', 'пл', 'очер'
universal_service_words ==
  { <<1080, 1085, 1085>>,
    <<1082, 1087, 1087>>,
    <<1089, 1095, 1077, 1090>>,
    <<1073, 1072, 1085, 1082>>,
    <<1073, 1080, 1082>>,
    <<1088, 47, 1089>>,
    <<1082, 47, 1089>>,
    <<1087, 1086, 1083, 1091, 1095, 1072, 1090, 1077, 1083, 1100>>,
    <<1087, 1083, 1072, 1090, 1077, 1083, 1100, 1097, 1080, 1082>>,
    <<1086, 1087, 1083, 1072, 1090, 1072>>,
    <<1087, 1083, 1072, 1090, 1077, 1078>>,
    <<1076, 1086, 1075, 1086, 1074, 1086, 1088>>,
    <<1089, 1095, 1077, 1090, 32, 1085, 1072, 32, 1086, 1087, 1083, 1072, 1090, 1091>>,
    <<1082, 1086, 1084, 1084, 1077, 1088, 1095, 1077, 1089, 1082, 1086, 1077, 32, 1087, 1088, 1077, 1076, 1083, 1086, 1078, 1077, 1085, 1080, 1077>>,
    <<1080, 1090, 1086, 1075, 1086>>,
    <<1074, 1089, 1077, 1075, 1086>>,
    <<1089, 1091, 1084, 1084, 1072>>,
    <<1085, 1072, 1079, 1085, 1072, 1095, 1077, 1085, 1080, 1077>>,
    <<1074, 1072, 1078, 1085, 1086>>,
    <<1087, 1088, 1080, 1084, 1077, 1095, 1072, 1085, 1080, 1077>>,
    <<1087, 1088, 1080, 1084, 1077, 1095, 1072, 1085, 1080, 1103>>,
    <<1087, 1086, 1076, 1075, 1086, 1090, 1086, 1074, 1083, 1077, 1085, 1086>>,
    <<1076, 1083, 1103>>,
    <<1086, 1090>>,
    <<1076, 1072, 1090, 1072>>,
    <<1085, 1086, 1084, 1077, 1088>>,
    <<1072, 1076, 1088, 1077, 1089>>,
    <<1090, 1077, 1083, 1077, 1092, 1086, 1085>>,
    <<101, 109, 97, 105, 108>>,
    <<1088, 1086, 1089, 1089, 1080, 1103>>,
    <<1086, 1073, 1083, 1072, 1089, 1090, 1100>>,
    <<1082, 1088, 1072, 1081>>,
    <<1075, 1086, 1088, 1086, 1076>>,
    <<1091, 1083, 1080, 1094, 1072>>,
    <<1076, 1086, 1084>>,
    <<1082, 1086, 1088, 1087, 1091, 1089>>,
    <<1082, 1086, 1084, 1085, 1072, 1090, 1072>>,
    <<1087, 1086, 1095, 1090, 1086, 1074, 1086, 1077>>,
    <<1080, 1085, 1076, 1077, 1082, 1089>>,
    <<1082, 1086, 1076>>,
    <<1074, 1080, 1076>>,
    <<1089, 1088, 1086, 1082>>,
    <<1087, 1083, 1072, 1090>>,
    <<1085, 1072, 1079>>,
    <<1087, 1083>>,
    <<1086, 1095, 1077, 1088>> }
\* service_words of _validate_commercial_item: the universal list and
\*   'ту', 'технические', 'условия', 'сертификат', 'соответствия'
commercial_service_words ==
  universal_service_words \cup
  { <<1090, 1091>>,
    <<1090, 1077, 1093, 1085, 1080, 1095, 1077, 1089, 1082, 1080, 1077>>,
    <<1091, 1089, 1083, 1086, 1074, 1080, 1103>>,
    <<1089, 1077, 1088, 1090, 1080, 1092, 1080, 1082, 1072, 1090>>,
    <<1089, 1086, 1086, 1090, 1074, 1077, 1090, 1089, 1090, 1074, 1080, 1103>> }
\* exclude_words of TableExtractor: the same words as the universal list
table_exclude_words == universal_service_words
\* exclude_words of PreciseTableParser: the universal list and
\*   'технические', 'условия', 'сертификат', 'соответствия'
precise_exclude_words ==
  universal_service_words \cup
  { <<1090, 1077, 1093, 1085, 1080, 1095, 1077, 1089, 1082, 1080, 1077>>,
    <<1091, 1089, 1083, 1086, 1074, 1080, 1103>>,
    <<1089, 1077, 1088, 1090, 1080, 1092, 1080, 1082, 1072, 1090>>,
    <<1089, 1086, 1086, 1090, 1074, 1077, 1090, 1089, 1090, 1074, 1080, 1103>> }
\* service_indicators of InvoiceParser._is_service_row:
\*   'итого', 'всего', 'сумма', 'наименований', 'наименования', 'корпус', 'комната', 'дом', 'шоссе', 'указанные', 'цены', 'скидки', 'действуют', 'апреля', 'года', 'подготовлено', 'инн', 'кпп', 'бик', 'р/с', 'банк', 'получатель', 'плательщик'
invoice_service_indicators ==
  { <<1080, 1090, 1086, 1075, 1086>>,
    <<1074, 1089, 1077, 1075, 1086>>,
    <<1089, 1091, 1084, 1084, 1072>>,
    <<1085, 1072, 1080, 1084, 1077, 1085, 1086, 1074, 1072, 1085, 1080, 1081>>,
    <<1085, 1072, 1080, 1084, 1077, 1085, 1086, 1074, 1072, 1085, 1080, 1103>>,
    <<1082, 1086, 1088, 1087, 1091, 1089>>,
    <<1082, 1086, 1084, 1085, 1072, 1090, 1072>>,
    <<1076, 1086, 1084>>,
    <<1096, 1086, 1089, 1089, 1077>>,
    <<1091, 1082, 1072, 1079, 1072, 1085, 1085, 1099, 1077>>,
    <<1094, 1077, 1085, 1099>>,
    <<1089, 1082, 1080, 1076, 1082, 1080>>,
    <<1076, 1077, 1081, 1089, 1090, 1074, 1091, 1102, 1090>>,
    <<1072, 1087, 1088, 1077, 1083, 1103>>,
    <<1075, 1086, 1076, 1072>>,
    <<1087, 1086, 1076, 1075, 1086, 1090, 1086, 1074, 1083, 1077, 1085, 1086>>,
    <<1080, 1085, 1085>>,
    <<1082, 1087, 1087>>,
    <<1073, 1080, 1082>>,
    <<1088, 47, 1089>>,
    <<1073, 1072, 1085, 1082>>,
    <<1087, 1086, 1083, 1091, 1095, 1072, 1090, 1077, 1083, 1100>>,
    <<1087, 1083, 1072, 1090, 1077, 1083, 1100, 1097, 1080, 1082>> }
\* words of the second filter of the 'start' supplier profile:
\*   'инн', 'кпп', 'счет', 'банк'
start_profile_words ==
  { <<1080, 1085, 1085>>,
    <<1082, 1087, 1087>>,
    <<1089, 1095, 1077, 1090>>,
    <<1073, 1072, 1085, 1082>> }
\* product_patterns that are plain words:
\*   'ввг', 'ппг', 'перевозка', 'транспорт', 'доставка', 'услуги', 'работы'
plain_product_patterns ==
  { <<1074, 1074, 1075>>,
    <<1087, 1087, 1075>>,
    <<1087, 1077, 1088, 1077, 1074, 1086, 1079, 1082, 1072>>,
    <<1090, 1088, 1072, 1085, 1089, 1087, 1086, 1088, 1090>>,
    <<1076, 1086, 1089, 1090, 1072, 1074, 1082, 1072>>,
    <<1091, 1089, 1083, 1091, 1075, 1080>>,
    <<1088, 1072, 1073, 1086, 1090, 1099>> }
\* 'кабель'
w_kabel == <<1082, 1072, 1073, 1077, 1083, 1100>>
\* 'силовой'
w_silovoy == <<1089, 1080, 1083, 1086, 1074, 1086, 1081>>
\* 'провод'
w_provod == <<1087, 1088, 1086, 1074, 1086, 1076>>
\* 'сип-'
w_sip_dash == <<1089, 1080, 1087, 45>>
\* 'СИП' (upper case)
w_SIP == <<1057, 1048, 1055>>
(***************************************************************************)
(* Item names of the modelled documents.                                   *)
(***************************************************************************)
\* "Кабель ВВГ 3х2.5"
NameCable == <<1050, 1072, 1073, 1077, 1083, 1100, 32, 1042, 1042, 1043, 32, 51, 1093, 50, 46, 53>>
\* "кабель ввг 3х2.5"
NameCableLower == <<1082, 1072, 1073, 1077, 1083, 1100, 32, 1074, 1074, 1075, 32, 51, 1093, 50, 46, 53>>
\* " Кабель ВВГ 3х2.5 "
NameCablePadded == <<32, 1050, 1072, 1073, 1077, 1083, 1100, 32, 1042, 1042, 1043, 32, 51, 1093, 50, 46, 53, 32>>
\* "Получатель платежа"
NameService == <<1055, 1086, 1083, 1091, 1095, 1072, 1090, 1077, 1083, 1100, 32, 1087, 1083, 1072, 1090, 1077, 1078, 1072>>
\* "Труба стальная 20х30"
NamePipe == <<1058, 1088, 1091, 1073, 1072, 32, 1089, 1090, 1072, 1083, 1100, 1085, 1072, 1103, 32, 50, 48, 1093, 51, 48>>
\* "СИП"
NameShort == <<1057, 1048, 1055>>
\* "Провод ПВС 2х1.5"
NameWire == <<1055, 1088, 1086, 1074, 1086, 1076, 32, 1055, 1042, 1057, 32, 50, 1093, 49, 46, 53>>
\* "СИП-4 4х16 провод"
NameSip == <<1057, 1048, 1055, 45, 52, 32, 52, 1093, 49, 54, 32, 1087, 1088, 1086, 1074, 1086, 1076>>

(***************************************************************************)
(* Helpers on sequences.                                                   *)
(***************************************************************************)
RECURSIVE SumSeq(_)
\* sum(...) over a list of integers
SumSeq(s) == IF s = <<>> THEN 0 ELSE Head(s) + SumSeq(Tail(s))

\* the set of elements of a list
Range(s) == {s[i] : i \in 1..Len(s)}

(***************************************************************************)
(* The seven strategies, in the order of the `parsers` list.               *)
(***************************************************************************)
ParserOrder ==
  << "commercial", "invoice", "competitive", "universal",
     "supplier_profile", "table_extractor", "precise_table_parser" >>

Parsers == Range(ParserOrder)

\* the strategies that read tables only (extract_items_from_tables(tables))
TableOnly == {"table_extractor", "precise_table_parser"}

\* the supplier profiles loaded by SupplierProfileManager
Profiles == {"baltkabel", "energoforsazh", "elkom", "start"}

\* display name of a profile (item['supplier'] = self.name)
ProfileName(p) ==
  CASE p = "baltkabel" -> "OOO BALTKABEL"
    [] p = "energoforsazh" -> "OOO Energoforsazh"
    [] p = "elkom" -> "OOO Elkom-Elektro"
    [] p = "start" -> "OOO START"

(***************************************************************************)
(* Rows of a document.  A row is a table row or a text line from which a   *)
(* strategy can extract a candidate: the name, qty and price it carries,   *)
(* whether it sits in a table or in the text, and its position.            *)
(***************************************************************************)
Row(name, qty, price, kind, source) ==
  [name |-> name, qty |-> qty, price |-> price, kind |-> kind, source |-> source]

Corpus ==
  << Row(NameCable,      2, 3, "table", "table_0_row_1"),
     Row(NamePipe,       1, 4, "table", "table_0_row_2"),
     Row(NameShort,      1, 1, "table", "table_0_row_3"),
     Row(NameSip,        0, 5, "table", "table_0_row_4"),
     Row(NameCable,      2, 3, "table", "table_1_row_1"),
     Row(NameCableLower, 2, 3, "text",  "text_line_1"),
     Row(NameService,    1, 5, "text",  "text_line_2"),
     Row(NameWire,       1, 2, "text",  "text_line_3") >>

\* confidence a strategy gives to an item, by the path that extracted it
Confidence(parser, kind) ==
  IF kind = "table"
    THEN (IF parser = "universal" THEN 90 ELSE 95)
    ELSE 70

\* the item dict a strategy builds from a row; total = qty * price
ItemOf(parser, row) ==
  [ name |-> row.name, qty |-> row.qty, price |-> row.price,
    total |-> row.qty * row.price,
    confidence |-> Confidence(parser, row.kind),
    source |-> row.source, supplier |-> "" ]

\* the rows of `rows` of one kind, in document order
RowsOfKind(rows, kind) == SelectSeq(rows, LAMBDA r : r.kind = kind)

\* raw candidates of a strategy: items from the tables first, then (for the
\* strategies that read the text) items from the text lines
Candidates(parser, rows) ==
  LET fromTables == RowsOfKind(rows, "table")
      fromText == IF parser \in TableOnly \/ parser = "supplier_profile"
                    THEN <<>> ELSE RowsOfKind(rows, "text")
      all == fromTables \o fromText
  IN  [i \in 1..Len(all) |-> ItemOf(parser, all[i])]

(***************************************************************************)
(* Deduplication.                                                          *)
(***************************************************************************)
\* key = (item.get('name', '').lower().strip(), item.get('qty'), item.get('price'))
DedupKey(item) == << Strip(Lower(item.name)), item.qty, item.price >>

RECURSIVE DedupFrom(_, _)
DedupFrom(items, seen) ==
  IF items = <<>> THEN <<>>
  ELSE LET key == DedupKey(Head(items))
       IN  IF key \in seen
             THEN DedupFrom(Tail(items), seen)
             ELSE <<Head(items)>> \o DedupFrom(Tail(items), seen \cup {key})

\* a dedup that keeps the last item of every key instead of the first
DedupKeepLast(items) ==
  LET idx == SelectSeq([i \in 1..Len(items) |-> i],
                       LAMBDA i : \A j \in (i + 1)..Len(items) :
                                     DedupKey(items[j]) # DedupKey(items[i]))
  IN  [k \in 1..Len(idx) |-> items[idx[k]]]

_deduplicate_items(items) == DedupFrom(items, {})

(***************************************************************************)
(* Validators of the strategies.                                           *)
(***************************************************************************)
\* the checks shared by _validate_universal_item, _validate_commercial_item
\* and the first part of _is_valid_product, for the word list `words`
StrictChecks(item, words) ==
  /\ Len(item.name) > 0 /\ item.qty # 0 /\ item.price # 0
  /\ ~ContainsAny(Lower(item.name), words)
  /\ HasTwoLetters(Lower(item.name))
  /\ ~(item.qty <= 0 \/ item.price <= 0)
  /\ ~(Len(Strip(Lower(item.name))) < 5)

_validate_universal_item(item) == StrictChecks(item, universal_service_words)

_validate_commercial_item(item) == StrictChecks(item, commercial_service_words)

_validate_invoice_item(item) ==
  /\ ~(Len(item.name) = 0 \/ Len(Strip(item.name)) < 2)
  /\ ~(item.qty <= 0 \/ item.price <= 0)
  /\ ~ContainsAny(Lower(item.name), invoice_service_indicators)
  /\ HasLetter(item.name)

_validate_competitive_item(item) ==
  /\ ~(Len(item.name) = 0 \/ Len(Strip(item.name)) < 2)
  /\ ~(item.qty <= 0 \/ item.price <= 0)

\* re.search(w1 + '.*' + w2, s): w1, later w2, no line break in between
MatchesThen(s, w1, w2) ==
  \E i \in 1..Len(s), j \in 1..Len(s) :
     /\ i + Len(w1) <= j
     /\ j + Len(w2) - 1 <= Len(s)
     /\ SubSeq(s, i, i + Len(w1) - 1) = w1
     /\ SubSeq(s, j, j + Len(w2) - 1) = w2
     /\ \A k \in (i + Len(w1))..(j - 1) : s[k] # 10

\* any(re.search(pattern, name, re.IGNORECASE) for pattern in product_patterns)
MatchesProductPattern(name) ==
  \/ MatchesThen(name, w_kabel, w_silovoy)
  \/ MatchesThen(name, w_kabel, w_provod)
  \/ \E i \in 1..(Len(name) - 4) :
        SubSeq(name, i, i + 3) = w_sip_dash /\ IsDigit(name[i + 4])
  \/ ContainsAny(name, plain_product_patterns)

\* the last two tests of _is_valid_product
LooksLikeProduct(name) ==
  \/ MatchesProductPattern(name)
  \/ HasDimension(name) \/ HasUnitSuffix(name)

table_is_valid_product(item) ==
  StrictChecks(item, table_exclude_words) /\ LooksLikeProduct(Lower(item.name))

precise_is_valid_product(item) ==
  StrictChecks(item, precise_exclude_words) /\ LooksLikeProduct(Lower(item.name))

\* all(filter(item)) and all(validator(item)) of a supplier profile
ProfileAccepts(profile, item) ==
  /\ CASE profile = "baltkabel" -> Contains(item.name, w_SIP)
       [] profile \in {"energoforsazh", "elkom"} -> Contains(Lower(item.name), w_kabel)
       [] profile = "start" -> ~ContainsAny(Lower(item.name), start_profile_words)
  /\ item.qty > 0
  /\ Len(item.name) > 5
  /\ item.price > 0

(***************************************************************************)
(* Entry points of the strategies: raw candidates -> returned items.       *)
(***************************************************************************)
\* the items the strategies build from the rows of the corpus
CorpusItems(parser) == {ItemOf(parser, Corpus[i]) : i \in 1..Len(Corpus)}

\* the validators, evaluated once for every item of the corpus
commercial_valid ==
  [it \in CorpusItems("commercial") |-> _validate_commercial_item(it)]

invoice_valid ==
  [it \in CorpusItems("invoice") |-> _validate_invoice_item(it)]

competitive_valid ==
  [it \in CorpusItems("competitive") |-> _validate_competitive_item(it)]

universal_valid ==
  [it \in CorpusItems("universal") |-> _validate_universal_item(it)]

table_valid ==
  [it \in CorpusItems("table_extractor") |-> table_is_valid_product(it)]

precise_valid ==
  [it \in CorpusItems("precise_table_parser") |-> precise_is_valid_product(it)]

profile_valid ==
  [p \in Profiles |->
     [it \in CorpusItems("supplier_profile") |-> ProfileAccepts(p, it)]]

parse_commercial_proposal(cands) ==
  SelectSeq(_deduplicate_items(cands), LAMBDA it : commercial_valid[it])

parse_invoice(cands) ==
  SelectSeq(_deduplicate_items(cands), LAMBDA it : invoice_valid[it])

parse_competitive_document(cands) ==
  SelectSeq(_deduplicate_items(cands), LAMBDA it : competitive_valid[it])

_parse_universal(cands) ==
  SelectSeq(_deduplicate_items(cands), LAMBDA it : universal_valid[it])

table_extract_items_from_tables(cands) ==
  SelectSeq(cands, LAMBDA it : table_valid[it])

precise_extract_items_from_tables(cands) ==
  SelectSeq(cands, LAMBDA it : precise_valid[it])

\* min(item.get('confidence', 0.8) + 0.1, 1.0)
BoostConfidence(c) == IF c + 10 > 100 THEN 100 ELSE c + 10

\* SupplierProfile.parse_document
profile_parse_document(profile, cands) ==
  LET kept == SelectSeq(cands, LAMBDA it : profile_valid[profile][it])
  IN  [i \in 1..Len(kept) |->
         [kept[i] EXCEPT !.supplier = ProfileName(profile),
                         !.confidence = BoostConfidence(@)]]

(***************************************************************************)
(* Results of the strategies.                                              *)
(***************************************************************************)
\* results[...] = None, before the strategy has run
NoResult ==
  [set |-> FALSE, error |-> FALSE, items |-> <<>>, count |-> 0,
   total_cost |-> 0, avg_confidence |-> 0]

\* results[...] = {'error': str(e)}
ErrorResult ==
  [set |-> TRUE, error |-> TRUE, items |-> <<>>, count |-> 0,
   total_cost |-> 0, avg_confidence |-> 0]

\* sum(item.get('total', 0) for item in items)
TotalCost(items) == SumSeq([i \in 1..Len(items) |-> items[i].total])

\* sum(item.get('confidence', 0) ...) / len(items) if items else 0, in hundredths
AvgConfidence(items) ==
  IF items = <<>> THEN 0
  ELSE SumSeq([i \in 1..Len(items) |-> items[i].confidence]) \div Len(items)

\* {'items': ..., 'count': ..., 'total_cost': ..., 'avg_confidence': ...}
ParserResult(items) ==
  [set |-> TRUE, error |-> FALSE, items |-> items, count |-> Len(items),
   total_cost |-> TotalCost(items), avg_confidence |-> AvgConfidence(items)]

(***************************************************************************)
(* Arbitration.                                                            *)
(***************************************************************************)
\* the per-item test without its test of the length of the name
SecondaryFilterAnyLength(item) ==
  LET name == Lower(item.name)
  IN  /\ ~ContainsAny(name, arbitration_service_words)
      /\ \E i \in 1..Len(name) : IsAlpha(name[i])
      /\ ContainsAny(name, arbitration_product_words)

\* the per-item test of the arbitration loop
SecondaryFilter(item) ==
  LET name == Lower(item.name)
  IN  /\ ~ContainsAny(name, arbitration_service_words)
      /\ Len(Strip(name)) > 10
      /\ \E i \in 1..Len(name) : IsAlpha(name[i])
      /\ ContainsAny(name, arbitration_product_words)

\* the names that occur in the documents of the model
Names == {Corpus[i].name : i \in 1..Len(Corpus)}

\* SecondaryFilter, evaluated once for every name (it reads the name only)
PassesSecondary == [n \in Names |-> SecondaryFilter([name |-> n])]

\* valid_items of one iteration of the loop
ValidItems(result) == SelectSeq(result.items, LAMBDA item : PassesSecondary[item.name])

\* 'error' not in parser_result (and the result is a non-empty dict)
Usable(result) == result.set /\ ~result.error

\* valid_count with the doubling only
AdjustedScoreKeepsCompetitive(parser, result) ==
  LET valid_count == Len(ValidItems(result))
  IN  IF parser = "precise_table_parser" /\ valid_count > 0
        THEN valid_count * 2 ELSE valid_count

\* valid_count with the 50% rule only
AdjustedScoreNoDoubling(parser, result) ==
  LET valid_count == Len(ValidItems(result))
  IN  IF parser = "competitive" /\ 2 * valid_count < result.count
        THEN 0 ELSE valid_count

\* valid_count after the two trust adjustments
AdjustedScore(parser, result) ==
  LET valid_count == Len(ValidItems(result))
      lowered == IF parser = "competitive" /\ 2 * valid_count < result.count
                   THEN 0 ELSE valid_count
  IN  IF parser = "precise_table_parser" /\ lowered > 0
        THEN lowered * 2 ELSE lowered

\* best_* before the loop
NoBest ==
  [best_parser |-> "None", best_count |-> 0, best_items |-> <<>>,
   best_total_cost |-> 0, best_avg_confidence |-> 0]

\* an iteration that lets a later strategy win a tie
ArbitrationStepLastWins(best, parser, result) ==
  IF Usable(result) /\ AdjustedScore(parser, result) > 0
     /\ AdjustedScore(parser, result) >= best.best_count
    THEN [best_parser |-> parser,
          best_count |-> AdjustedScore(parser, result),
          best_items |-> ValidItems(result),
          best_total_cost |-> TotalCost(ValidItems(result)),
          best_avg_confidence |-> AvgConfidence(ValidItems(result))]
    ELSE best

\* an iteration that adds the winner's items to those chosen before
ArbitrationStepMerging(best, parser, result) ==
  IF Usable(result) /\ AdjustedScore(parser, result) > best.best_count
    THEN [best_parser |-> parser,
          best_count |-> AdjustedScore(parser, result),
          best_items |-> best.best_items \o ValidItems(result),
          best_total_cost |-> TotalCost(ValidItems(result)),
          best_avg_confidence |-> AvgConfidence(ValidItems(result))]
    ELSE best

\* one iteration of `for parser_name, parser_result in parsers`
ArbitrationStep(best, parser, result) ==
  IF Usable(result) /\ AdjustedScore(parser, result) > best.best_count
    THEN [best_parser |-> parser,
          best_count |-> AdjustedScore(parser, result),
          best_items |-> ValidItems(result),
          best_total_cost |-> TotalCost(ValidItems(result)),
          best_avg_confidence |-> AvgConfidence(ValidItems(result))]
    ELSE best

RECURSIVE ArbitrationLoop(_, _, _)
\* the loop over parsers[i..], starting from `best`
ArbitrationLoop(res, i, best) ==
  IF i > Len(ParserOrder) THEN best
  ELSE ArbitrationLoop(res, i + 1,
                       ArbitrationStep(best, ParserOrder[i], res[ParserOrder[i]]))

(***************************************************************************)
(* Document type and recommendations.                                      *)
(***************************************************************************)
DocTypes == {"commercial_proposal", "invoice", "competitive_procedure", "unknown"}

\* isinstance(results[key], dict): every value stored under a parser key is a dict
IsDict(result) == TRUE

\* results[key].get('count', 0) if results[key] and not isinstance(results[key], dict) else 0
RecommendationCount(result) ==
  IF result.set /\ ~IsDict(result) THEN result.count ELSE 0

\* the key f"{best_parser}_parser" is present in results
BestKeyPresent(best_parser) ==
  best_parser \in {"commercial", "invoice", "competitive", "universal", "supplier_profile"}

\* recommendations that report the absence of items for unknown documents only
RecommendationsForUnknownOnly(res, document_type, best_parser) ==
  IF document_type = "unknown"
    THEN <<"no_parser_found_items", "possible_reasons">>
    ELSE <<>>

\* The messages are named by tags: "no_parser_found_items" is the message
\* that no parser found product rows ("Ни один парсер не нашел товарные
\* позиции"), "possible_reasons" the hint that follows it; "low_confidence"
\* and "high_confidence" are the two messages about avg_confidence.
_generate_recommendations(res, document_type, best_parser) ==
  LET commercial_count == RecommendationCount(res["commercial"])
      invoice_count == RecommendationCount(res["invoice"])
      competitive_count == RecommendationCount(res["competitive"])
      universal_count == RecommendationCount(res["universal"])
      byType ==
        IF document_type = "commercial_proposal"
          THEN (IF commercial_count > 0 THEN <<"commercial_parsed">>
                ELSE <<"commercial_without_items">>)
        ELSE IF document_type = "invoice"
          THEN (IF invoice_count > 0 THEN <<"invoice_parsed">>
                ELSE <<"invoice_without_items">>)
        ELSE <<>>
      universal == IF universal_count > 0 THEN <<"universal_found_items">> ELSE <<>>
      competitive == IF competitive_count > 10 THEN <<"competitive_many_items">> ELSE <<>>
      confidence ==
        IF best_parser # "None" /\ BestKeyPresent(best_parser)
           /\ res[best_parser].set /\ ~IsDict(res[best_parser])
          THEN (IF res[best_parser].avg_confidence < 70 THEN <<"low_confidence">>
                ELSE IF res[best_parser].avg_confidence > 90 THEN <<"high_confidence">>
                ELSE <<>>)
          ELSE <<>>
      none ==
        IF \A c \in {commercial_count, invoice_count, competitive_count, universal_count} : c = 0
          THEN <<"no_parser_found_items", "possible_reasons">>
          ELSE <<>>
  IN  byType \o universal \o competitive \o confidence \o none

(***************************************************************************)
(* What a strategy's call does: it returns a list of items or it raises.   *)
(***************************************************************************)
Returned(items) == [raised |-> FALSE, items |-> items]

Raised == [raised |-> TRUE, items |-> <<>>]

\* a handler that lets the exception of a strategy leave parse_document
PropagateException(outcome, next) == IF outcome.raised THEN "raised" ELSE next

\* try: ... except Exception as e: ...  -- where parse_document goes on
AfterStrategy(outcome, next) == next

\* what the try block or its except clause stores in results[...]
StrategyResult(outcome) ==
  IF outcome.raised THEN ErrorResult ELSE ParserResult(outcome.items)

(***************************************************************************)
(* State of one UniversalParser working through parse_document, and of one *)
(* call sequence of _deduplicate_items on its own.                         *)
(***************************************************************************)
VARIABLES
  pc,               \* position in parse_document
  rows,             \* the rows of the document being parsed
  tables,           \* "None" (no tables argument) or "list"
  results,          \* results[...] of the seven strategies
  valid_items,      \* valid_items of each iteration of the arbitration loop
  scores,           \* valid_count of each iteration, after the adjustments
  best_parser,      \* results['best_parser']
  best_items,       \* results['best_items']
  count,            \* results['count']
  total_cost,       \* results['total_cost']
  avg_confidence,   \* results['avg_confidence']
  document_type,    \* results['document_type']
  recommendations,  \* results['recommendations']
  dpc,              \* position in the calls of _deduplicate_items
  d_in,             \* the list given to _deduplicate_items
  d_once,           \* _deduplicate_items(d_in)
  d_twice,          \* _deduplicate_items(d_once)
  fpc,              \* position in the call of one helper function on its own
  arg,              \* the argument of that call
  ret,              \* what the call returned
  engine,           \* how the last initialisation of the OCR engine went
  opc,              \* position in the life of a parser with OCR support
  use_ocr,          \* UniversalParser.use_ocr
  enhanced_extractor, \* UniversalParser.enhanced_extractor
  status,           \* get_ocr_status()['status'] of the last call
  toggled,          \* the last call of toggle_ocr: its argument and what it returned
  entry,            \* the entry point that is processing a PDF
  doc,              \* the PDF being processed: its text, tables and images
  pdf_path,         \* the pdf_path argument of parse_document
  enable_ocr,       \* the enable_ocr argument of parse_pdf_file
  doc_text,         \* the text of the document, as handed on
  quality_check,    \* needs_ocr of the quality check, once evaluated
  enhance_calls,    \* calls of enhance_pdf_text for this document
  ocr_info,         \* results['ocr_info']
  returned,         \* what the entry point returned
  parsed,           \* how many documents this parser object has parsed
  current_document, \* MainWindow.current_document
  current_items,    \* MainWindow.current_items
  processing_thread,\* MainWindow.processing_thread: the file of the thread
  threads,          \* the ProcessingThread of each file
  events,           \* the slot calls queued for the main thread
  app               \* whether the application process is alive

pipeline == << pc, rows, tables, results, valid_items, scores, best_parser,
               best_items, count, total_cost, avg_confidence, document_type,
               recommendations >>

dedup == << dpc, d_in, d_once, d_twice >>

frame == << fpc, arg, ret >>

\* the parser object as far as OCR goes
ocr_object == << engine, opc, use_ocr, enhanced_extractor, status, toggled >>

\* the parser object but for the position
ocr_object_but_opc == << engine, use_ocr, enhanced_extractor, status, toggled >>

\* the processing of one PDF
ocr_run == << entry, doc, pdf_path, enable_ocr, doc_text, quality_check,
             enhance_calls, ocr_info, returned, parsed >>

ocr == << ocr_object, ocr_run >>

\* the main window and its background threads
gui == << current_document, current_items, processing_thread, threads,
         events, app >>

\* everything but the state of parse_document
aside == << dedup, frame, ocr, gui >>

vars == << pipeline, dedup, frame, ocr, gui >>

outputs == << valid_items, scores, best_parser, best_items, count, total_cost,
              avg_confidence, document_type, recommendations >>

\* the documents of the model: at most MaxRows rows of the corpus, in order
Documents ==
  {S \in SUBSET (1..Len(Corpus)) : Cardinality(S) <= MaxRows}

RowsOf(S) ==
  LET picked == SelectSeq([i \in 1..Len(Corpus) |-> i], LAMBDA i : i \in S)
  IN  [k \in 1..Len(picked) |-> Corpus[picked[k]]]

\* no helper function is being called on its own
NoCall ==
  /\ fpc = "off"
  /\ arg = <<>>
  /\ ret = <<>>

\* self.enhanced_extractor = None
NoExtractor ==
  [ none |-> TRUE, use_ocr |-> FALSE, ocr_processor |-> [reader |-> "None"] ]

\* toggle_ocr has not been called
NoToggle == [enable |-> FALSE, returned |-> "None"]

\* no PDF
NoPdf == [text |-> <<>>, tables |-> <<>>, images |-> <<>>]

\* no PDF is being processed
NoRun ==
  /\ entry = "None"
  /\ doc = NoPdf
  /\ pdf_path = "None"
  /\ enable_ocr = "None"
  /\ doc_text = <<>>
  /\ quality_check = "None"
  /\ enhance_calls = 0
  /\ ocr_info = <<>>
  /\ returned = "None"
  /\ parsed = 0

\* the life of a parser with OCR support is not followed
\* the files in the list of the window, in the order they are selected
Files == 1..MaxFiles

\* MainWindow.__init__: no document, no items, no thread
NoGui ==
  /\ current_document = 0
  /\ current_items = <<>>
  /\ processing_thread = 0
  /\ threads = [f \in Files |-> "none"]
  /\ events = <<>>
  /\ app = "running"

NoOcr ==
  /\ engine = "None"
  /\ opc = "off"
  /\ use_ocr = FALSE
  /\ enhanced_extractor = NoExtractor
  /\ status = "None"
  /\ toggled = NoToggle
  /\ NoRun

\* a UniversalParser between two calls of parse_document
Fresh ==
  /\ pc = "idle"
  /\ rows = <<>>
  /\ tables = "list"
  /\ results = [p \in Parsers |-> NoResult]
  /\ valid_items = [p \in Parsers |-> <<>>]
  /\ scores = [p \in Parsers |-> 0]
  /\ best_parser = "None"
  /\ best_items = <<>>
  /\ count = 0
  /\ total_cost = 0
  /\ avg_confidence = 0
  /\ document_type = "None"
  /\ recommendations = <<>>

Init ==
  /\ Fresh
  /\ NoOcr
  /\ NoGui
  /\ dpc = "off"
  /\ d_in = <<>>
  /\ d_once = <<>>
  /\ d_twice = <<>>
  /\ NoCall

\* parse_document(text, tables): the fresh results dict
Start ==
  /\ pc = "idle"
  /\ \E S \in Documents, t \in {"None", "list"} :
        /\ t = "None" => RowsOfKind(RowsOf(S), "table") = <<>>
        /\ rows' = RowsOf(S)
        /\ tables' = t
  /\ results' = [p \in Parsers |-> NoResult]
  /\ pc' = "commercial"
  /\ UNCHANGED << outputs, aside >>

\* what a strategy's extraction yields: the candidates of the rows it
\* recognises, or nothing when it recognises no layout of the document
Extract(parser, recognised) ==
  IF recognised THEN Candidates(parser, rows) ELSE <<>>

\* the try block of one strategy: stores its result and moves on
Store(parser, outcome, next) ==
  /\ results' = [results EXCEPT ![parser] = StrategyResult(outcome)]
  /\ pc' = AfterStrategy(outcome, next)
  /\ UNCHANGED << rows, tables, outputs, aside >>

RunCommercial ==
  /\ pc = "commercial"
  /\ \E recognised \in BOOLEAN :
        Store("commercial",
              Returned(parse_commercial_proposal(Extract("commercial", recognised))),
              "invoice")

RunInvoice ==
  /\ pc = "invoice"
  /\ \E recognised \in BOOLEAN :
        Store("invoice",
              Returned(parse_invoice(Extract("invoice", recognised))),
              "competitive")

\* bad_block: the text holds a structured block with a name, a price and an
\* unparsable quantity, so _parse_structured_block raises TypeError
RunCompetitive ==
  /\ pc = "competitive"
  /\ \E recognised \in BOOLEAN, bad_block \in BOOLEAN :
        Store("competitive",
              IF bad_block THEN Raised
              ELSE Returned(parse_competitive_document(Extract("competitive", recognised))),
              "universal")

RunUniversal ==
  /\ pc = "universal"
  /\ \E recognised \in BOOLEAN :
        Store("universal",
              Returned(_parse_universal(Extract("universal", recognised))),
              "supplier_profile")

\* parse_with_profile: supplier_id is what identify_supplier finds in the text
RunSupplierProfile ==
  /\ pc = "supplier_profile"
  /\ \E supplier_id \in Profiles \cup {"None"} :
        Store("supplier_profile",
              IF supplier_id = "None" THEN Returned(<<>>)
              ELSE Returned(profile_parse_document(supplier_id,
                               Extract("supplier_profile", TRUE))),
              "table_extractor")

\* `for table_idx, table in enumerate(tables)` raises TypeError on tables=None
RunTableExtractor ==
  /\ pc = "table_extractor"
  /\ \E recognised \in BOOLEAN :
        Store("table_extractor",
              IF tables = "None" THEN Raised
              ELSE Returned(table_extract_items_from_tables(
                               Extract("table_extractor", recognised))),
              "precise_table_parser")

RunPreciseTableParser ==
  /\ pc = "precise_table_parser"
  /\ \E recognised \in BOOLEAN :
        Store("precise_table_parser",
              IF tables = "None" THEN Raised
              ELSE Returned(precise_extract_items_from_tables(
                               Extract("precise_table_parser", recognised))),
              "arbitrate")

\* the arbitration loop and the assignments to results['best_parser'] ...
Arbitrate ==
  /\ pc = "arbitrate"
  /\ LET best == ArbitrationLoop(results, 1, NoBest)
     IN  /\ best_parser' = best.best_parser
         /\ best_items' = best.best_items
         /\ count' = best.best_count
         /\ total_cost' = best.best_total_cost
         /\ avg_confidence' = best.best_avg_confidence
  /\ valid_items' = [p \in Parsers |->
                       IF Usable(results[p]) THEN ValidItems(results[p]) ELSE <<>>]
  /\ scores' = [p \in Parsers |->
                  IF Usable(results[p]) THEN AdjustedScore(p, results[p]) ELSE 0]
  /\ pc' = "finish"
  /\ UNCHANGED << rows, tables, results, document_type, recommendations, aside >>

\* _detect_document_type(text) and _generate_recommendations(results); return
Finish ==
  /\ pc = "finish"
  /\ \E dt \in DocTypes :
        /\ document_type' = dt
        /\ recommendations' = _generate_recommendations(results, dt, best_parser)
  /\ pc' = "done"
  /\ UNCHANGED << rows, tables, results, valid_items, scores, best_parser,
                  best_items, count, total_cost, avg_confidence, aside >>

\* the results dict is handed to the caller; the parser keeps none of it
Return ==
  /\ pc = "done"
  /\ pc' = "idle"
  /\ rows' = <<>>
  /\ tables' = "list"
  /\ results' = [p \in Parsers |-> NoResult]
  /\ valid_items' = [p \in Parsers |-> <<>>]
  /\ scores' = [p \in Parsers |-> 0]
  /\ best_parser' = "None"
  /\ best_items' = <<>>
  /\ count' = 0
  /\ total_cost' = 0
  /\ avg_confidence' = 0
  /\ document_type' = "None"
  /\ recommendations' = <<>>
  /\ UNCHANGED aside

Next ==
  \/ Start
  \/ RunCommercial
  \/ RunInvoice
  \/ RunCompetitive
  \/ RunUniversal
  \/ RunSupplierProfile
  \/ RunTableExtractor
  \/ RunPreciseTableParser
  \/ Arbitrate
  \/ Finish
  \/ Return

Spec == Init /\ [][Next]_vars

(***************************************************************************)
(* _deduplicate_items on its own: a list of items, deduplicated once and   *)
(* then once more.                                                         *)
(***************************************************************************)
\* items a strategy can hand to _deduplicate_items: the same product from two
\* tables, in another case, with blanks around the name, with another quantity
DedupPool ==
  { ItemOf("commercial", Corpus[1]),
    ItemOf("commercial", Corpus[5]),
    ItemOf("commercial", Corpus[6]),
    ItemOf("commercial", Row(NameCablePadded, 2, 3, "text", "text_line_4")),
    ItemOf("commercial", Row(NameCable, 1, 3, "table", "table_2_row_1")) }

\* the lists of at most MaxLen items of the pool
DedupInputs == UNION {[1..n -> DedupPool] : n \in 0..MaxLen}

InitDedup ==
  /\ Fresh
  /\ NoOcr
  /\ NoGui
  /\ dpc = "input"
  /\ d_in \in DedupInputs
  /\ d_once = <<>>
  /\ d_twice = <<>>
  /\ NoCall

DedupOnce ==
  /\ dpc = "input"
  /\ d_once' = _deduplicate_items(d_in)
  /\ dpc' = "once"
  /\ UNCHANGED << pipeline, frame, ocr, gui, d_in, d_twice >>

DedupTwice ==
  /\ dpc = "once"
  /\ d_twice' = _deduplicate_items(d_once)
  /\ dpc' = "twice"
  /\ UNCHANGED << pipeline, frame, ocr, gui, d_in, d_once >>

NextDedup ==
  \/ DedupOnce
  \/ DedupTwice

SpecDedup == InitDedup /\ [][NextDedup]_vars

(***************************************************************************)
(* How the row parsers set the total of an item.  A cell or field holds a  *)
(* number 0..MaxAmount, or something _parse_number turns into None.        *)
(***************************************************************************)
\* _parse_number(...) is None
NoneNum == -1

\* a key that is not in the dict (a field that the block does not have)
Absent == -2

Amounts == 0..MaxAmount

Cells == Amounts \cup {NoneNum}

\* no item: the row parser returned None or skipped the row
NoItem == [item |-> FALSE, raised |-> FALSE, qty |-> 0, price |-> 0, total |-> 0]

\* an exception left the row parser
RowRaised == [item |-> FALSE, raised |-> TRUE, qty |-> 0, price |-> 0, total |-> 0]

RowItem(qty, price, total) ==
  [item |-> TRUE, raised |-> FALSE, qty |-> qty, price |-> price, total |-> total]

\* Python's truth value of a parsed number: None and 0 are false
Truthy(n) == n # NoneNum /\ n # 0

\* the part of the validators that reads qty and price (the name is a valid one)
AmountsValid(qty, price) == Truthy(qty) /\ Truthy(price) /\ qty > 0 /\ price > 0

\* one row of _parse_table_with_mapping: row.qty_mapped is 'qty' in mapping, ...
_parse_table_with_mapping(row) ==
  LET qty == IF row.qty_mapped THEN row.qty ELSE 1
      price == IF row.price_mapped THEN row.price ELSE 0
      total == IF row.total_mapped THEN row.total ELSE NoneNum
      filled == IF total = NoneNum /\ Truthy(qty) /\ Truthy(price)
                  THEN qty * price ELSE total
  IN  IF AmountsValid(qty, price) THEN RowItem(qty, price, filled) ELSE NoItem

\* the first index of `range` whose cell is a number, 0 when there is none
FirstNumber(cells, range) ==
  IF \E k \in range : cells[k] # NoneNum
    THEN CHOOSE k \in range : cells[k] # NoneNum /\ \A j \in range : j < k => cells[j] = NoneNum
    ELSE 0

\* _parse_table_row_values(values): cells[k] is values[k + 1], the cells after
\* the position number values[0] and the name values[1]
_parse_table_row_values(cells) ==
  LET len == Len(cells) + 2
      qty_k == FirstNumber(cells, 1..(IF len < 5 THEN len - 2 ELSE 3))
      price_k == IF qty_k = 0 THEN 0
                 ELSE FirstNumber(cells, (qty_k + 2)..(IF qty_k + 4 < len - 1
                                                         THEN qty_k + 3 ELSE len - 2))
      qty == cells[qty_k]
      price == cells[price_k]
      before_last == cells[Len(cells) - 1]
      last == cells[Len(cells)]
      total == IF before_last # NoneNum /\ before_last # price /\ before_last # qty
                 THEN before_last
               ELSE IF last # NoneNum THEN last
               ELSE before_last
  IN  IF len < 4 \/ qty_k = 0 \/ price_k = 0 THEN NoItem
      ELSE IF ~AmountsValid(qty, price) THEN NoItem
      ELSE RowItem(qty, price, IF Truthy(total) THEN total ELSE qty * price)

\* _parse_line_universal: the groups qty, price and total of the match
_parse_line_universal(groups) ==
  IF Truthy(groups.total)
    THEN (IF AmountsValid(groups.qty, groups.price)
            THEN RowItem(groups.qty, groups.price, groups.total) ELSE NoItem)
  ELSE IF groups.qty = NoneNum \/ groups.price = NoneNum THEN NoItem
  ELSE IF AmountsValid(groups.qty, groups.price)
    THEN RowItem(groups.qty, groups.price, groups.qty * groups.price)
  ELSE NoItem

\* _parse_structured_block and the validation in parse_competitive_document:
\* the fields qty, price and total of the block, Absent when the block has no
\* such line
_parse_structured_block(block) ==
  IF block.qty = Absent \/ block.price = Absent THEN NoItem
  ELSE IF block.total = Absent /\ (block.qty = NoneNum \/ block.price = NoneNum)
    THEN RowRaised
  ELSE IF block.qty = NoneNum \/ block.price = NoneNum THEN NoItem
  ELSE IF block.qty <= 0 \/ block.price <= 0 THEN NoItem
  ELSE RowItem(block.qty, block.price,
               IF block.total = Absent THEN block.qty * block.price ELSE block.total)

\* the rows, lines and blocks given to the four row parsers
MappedRows ==
  [qty_mapped : BOOLEAN, qty : Cells, price_mapped : BOOLEAN, price : Cells,
   total_mapped : BOOLEAN, total : Cells]

ValueRows == UNION {[1..n -> Cells] : n \in 2..4}

LineGroups == [qty : Cells, price : Cells, total : Cells]

Blocks ==
  [qty : Cells \cup {Absent}, price : Cells \cup {Absent}, total : Cells \cup {Absent}]

InitTotal ==
  /\ Fresh
  /\ NoOcr
  /\ NoGui
  /\ dpc = "off" /\ d_in = <<>> /\ d_once = <<>> /\ d_twice = <<>>
  /\ \/ fpc = "mapped_row" /\ arg \in MappedRows
     \/ fpc = "row_values" /\ arg \in ValueRows
     \/ fpc = "line" /\ arg \in LineGroups
     \/ fpc = "block" /\ arg \in Blocks
  /\ ret = <<>>

\* the call returns (or raises): ret is its outcome, fpc tells which call it was
Returns(result, from) ==
  /\ ret' = result
  /\ fpc' = from
  /\ UNCHANGED << pipeline, dedup, ocr, gui, arg >>

ParseMappedRow ==
  /\ fpc = "mapped_row"
  /\ Returns(_parse_table_with_mapping(arg), "mapped_row_done")

ParseRowValues ==
  /\ fpc = "row_values"
  /\ Returns(_parse_table_row_values(arg), "row_values_done")

ParseLine ==
  /\ fpc = "line"
  /\ Returns(_parse_line_universal(arg), "line_done")

ParseStructuredBlock ==
  /\ fpc = "block"
  /\ Returns(_parse_structured_block(arg), "block_done")

NextTotal ==
  \/ ParseMappedRow
  \/ ParseRowValues
  \/ ParseLine
  \/ ParseStructuredBlock

SpecTotal == InitTotal /\ [][NextTotal]_vars

(***************************************************************************)
(* _parse_number on strings.  A float is its decimal digits: the number    *)
(* mantissa / 10^scale; NoFloat is None.                                   *)
(***************************************************************************)
NoFloat == [none |-> TRUE, mantissa |-> 0, scale |-> 0]

Float(mantissa, scale) == [none |-> FALSE, mantissa |-> mantissa, scale |-> scale]

Comma == 44

Dot == 46

Minus == 45

Blank == 32

\* the characters kept by re.sub(r'[^\d\.,\s-]', '', value_str)
KeptByCleaning(c) == IsDigit(c) \/ c = Dot \/ c = Comma \/ IsSpace(c) \/ c = Minus

\* str.replace(c, ''): every occurrence of the character c removed
Without(s, c) == SelectSeq(s, LAMBDA x : x # c)

\* str.replace(c, d) for single characters
Replaced(s, c, d) == [i \in 1..Len(s) |-> IF s[i] = c THEN d ELSE s[i]]

\* str.count(c)
CountOf(s, c) == Len(SelectSeq(s, LAMBDA x : x = c))

\* s.split(c)[-1]: what follows the last c
AfterLast(s, c) ==
  LET last == CHOOSE i \in 1..Len(s) : s[i] = c /\ \A j \in (i + 1)..Len(s) : s[j] # c
  IN  SubSeq(s, last + 1, Len(s))

RECURSIVE DigitsValue(_)
\* the number written by a string of decimal digits
DigitsValue(s) ==
  IF s = <<>> THEN 0 ELSE 10 * DigitsValue(SubSeq(s, 1, Len(s) - 1)) + (s[Len(s)] - 48)

\* float(s) for strings of digits, dots, commas and whitespace: surrounding
\* whitespace is ignored, then digits with at most one dot and at least one
\* digit; anything else is a ValueError (NoFloat)
PyFloat(s) ==
  LET t == Strip(s)
      digits == SelectSeq(t, IsDigit)
  IN  IF t = <<>> \/ digits = <<>> THEN NoFloat
      ELSE IF \E i \in 1..Len(t) : ~IsDigit(t[i]) /\ t[i] # Dot THEN NoFloat
      ELSE IF CountOf(t, Dot) > 1 THEN NoFloat
      ELSE IF CountOf(t, Dot) = 0 THEN Float(DigitsValue(t), 0)
      ELSE Float(DigitsValue(digits), Len(AfterLast(t, Dot)))

\* _parse_number(value) for a string value
_parse_number(value) ==
  LET cleaned == SelectSeq(Strip(value), KeptByCleaning)
      separated ==
        IF CountOf(cleaned, Comma) > 0 /\ CountOf(cleaned, Dot) > 0
          THEN Without(cleaned, Comma)
        ELSE IF CountOf(cleaned, Comma) > 0
          THEN (IF CountOf(cleaned, Comma) = 1 /\ Len(AfterLast(cleaned, Comma)) <= 2
                  THEN Replaced(cleaned, Comma, Dot)
                  ELSE Without(cleaned, Comma))
        ELSE cleaned
      value_str == Without(separated, Blank)
  IN  IF value_str = <<>> THEN NoFloat ELSE PyFloat(value_str)

\* the characters of the strings: 1, 5, comma, dot, space, no-break space and
\* the Cyrillic letter er (of a currency word)
NumberAlphabet == {49, 53, Comma, Dot, Blank, 160, 1088}

NumberStrings == UNION {[1..n -> NumberAlphabet] : n \in 0..MaxStr}

InitNumber ==
  /\ Fresh
  /\ NoOcr
  /\ NoGui
  /\ dpc = "off" /\ d_in = <<>> /\ d_once = <<>> /\ d_twice = <<>>
  /\ fpc = "parse_number"
  /\ arg \in NumberStrings
  /\ ret = <<>>

ParseNumber ==
  /\ fpc = "parse_number"
  /\ Returns(_parse_number(arg), "parse_number_done")

NextNumber ==
  \/ ParseNumber

SpecNumber == InitNumber /\ [][NextNumber]_vars

(***************************************************************************)
(* Column identification: the synonym lists of the strategies and the      *)
(* header cells of the tables.                                             *)
(***************************************************************************)
\* UniversalParser.column_synonyms, in the order of the dict
column_synonyms ==
  <<
     [ field |-> "number",
       \* №, номер, n, number, позиция, поз, порядковый
       words |-> {
         <<8470>>,
         <<1085, 1086, 1084, 1077, 1088>>,
         <<110>>,
         <<110, 117, 109, 98, 101, 114>>,
         <<1087, 1086, 1079, 1080, 1094, 1080, 1103>>,
         <<1087, 1086, 1079>>,
         <<1087, 1086, 1088, 1103, 1076, 1082, 1086, 1074, 1099, 1081>> } ],
     [ field |-> "article",
       \* артикул, код, article, code, sku, арт, код товара
       words |-> {
         <<1072, 1088, 1090, 1080, 1082, 1091, 1083>>,
         <<1082, 1086, 1076>>,
         <<97, 114, 116, 105, 99, 108, 101>>,
         <<99, 111, 100, 101>>,
         <<115, 107, 117>>,
         <<1072, 1088, 1090>>,
         <<1082, 1086, 1076, 32, 1090, 1086, 1074, 1072, 1088, 1072>> } ],
     [ field |-> "name",
       \* товары, работы, услуги, наименование, описание, name, description, название, товар
       words |-> {
         <<1090, 1086, 1074, 1072, 1088, 1099>>,
         <<1088, 1072, 1073, 1086, 1090, 1099>>,
         <<1091, 1089, 1083, 1091, 1075, 1080>>,
         <<1085, 1072, 1080, 1084, 1077, 1085, 1086, 1074, 1072, 1085, 1080, 1077>>,
         <<1086, 1087, 1080, 1089, 1072, 1085, 1080, 1077>>,
         <<110, 97, 109, 101>>,
         <<100, 101, 115, 99, 114, 105, 112, 116, 105, 111, 110>>,
         <<1085, 1072, 1079, 1074, 1072, 1085, 1080, 1077>>,
         <<1090, 1086, 1074, 1072, 1088>> } ],
     [ field |-> "qty",
       \* количество, кол-во, qty, amount, объем, кол, к-во, шт
       words |-> {
         <<1082, 1086, 1083, 1080, 1095, 1077, 1089, 1090, 1074, 1086>>,
         <<1082, 1086, 1083, 45, 1074, 1086>>,
         <<113, 116, 121>>,
         <<97, 109, 111, 117, 110, 116>>,
         <<1086, 1073, 1098, 1077, 1084>>,
         <<1082, 1086, 1083>>,
         <<1082, 45, 1074, 1086>>,
         <<1096, 1090>> } ],
     [ field |-> "unit",
       \* ед, единица, изм, unit, measure, единицы, измерения
       words |-> {
         <<1077, 1076>>,
         <<1077, 1076, 1080, 1085, 1080, 1094, 1072>>,
         <<1080, 1079, 1084>>,
         <<117, 110, 105, 116>>,
         <<109, 101, 97, 115, 117, 114, 101>>,
         <<1077, 1076, 1080, 1085, 1080, 1094, 1099>>,
         <<1080, 1079, 1084, 1077, 1088, 1077, 1085, 1080, 1103>> } ],
     [ field |-> "price",
       \* цена, стоимость, price, cost, тариф, цена за ед, цена за единицу
       words |-> {
         <<1094, 1077, 1085, 1072>>,
         <<1089, 1090, 1086, 1080, 1084, 1086, 1089, 1090, 1100>>,
         <<112, 114, 105, 99, 101>>,
         <<99, 111, 115, 116>>,
         <<1090, 1072, 1088, 1080, 1092>>,
         <<1094, 1077, 1085, 1072, 32, 1079, 1072, 32, 1077, 1076>>,
         <<1094, 1077, 1085, 1072, 32, 1079, 1072, 32, 1077, 1076, 1080, 1085, 1080, 1094, 1091>> } ],
     [ field |-> "total",
       \* сумма, итого, total, sum, стоимость, сумма с ндс, сумма без ндс
       words |-> {
         <<1089, 1091, 1084, 1084, 1072>>,
         <<1080, 1090, 1086, 1075, 1086>>,
         <<116, 111, 116, 97, 108>>,
         <<115, 117, 109>>,
         <<1089, 1090, 1086, 1080, 1084, 1086, 1089, 1090, 1100>>,
         <<1089, 1091, 1084, 1084, 1072, 32, 1089, 32, 1085, 1076, 1089>>,
         <<1089, 1091, 1084, 1084, 1072, 32, 1073, 1077, 1079, 32, 1085, 1076, 1089>> } ]
  >>

\* CommercialProposalParser.header_patterns, in the order of the dict
commercial_header_patterns ==
  <<
     [ field |-> "number",
       \* №, номер, n, number, позиция
       words |-> {
         <<8470>>,
         <<1085, 1086, 1084, 1077, 1088>>,
         <<110>>,
         <<110, 117, 109, 98, 101, 114>>,
         <<1087, 1086, 1079, 1080, 1094, 1080, 1103>> } ],
     [ field |-> "name",
       \* наименование, название, описание, товар, name, description
       words |-> {
         <<1085, 1072, 1080, 1084, 1077, 1085, 1086, 1074, 1072, 1085, 1080, 1077>>,
         <<1085, 1072, 1079, 1074, 1072, 1085, 1080, 1077>>,
         <<1086, 1087, 1080, 1089, 1072, 1085, 1080, 1077>>,
         <<1090, 1086, 1074, 1072, 1088>>,
         <<110, 97, 109, 101>>,
         <<100, 101, 115, 99, 114, 105, 112, 116, 105, 111, 110>> } ],
     [ field |-> "qty",
       \* кол-во, количество, qty, amount, объем
       words |-> {
         <<1082, 1086, 1083, 45, 1074, 1086>>,
         <<1082, 1086, 1083, 1080, 1095, 1077, 1089, 1090, 1074, 1086>>,
         <<113, 116, 121>>,
         <<97, 109, 111, 117, 110, 116>>,
         <<1086, 1073, 1098, 1077, 1084>> } ],
     [ field |-> "unit",
       \* ед, единица, изм, unit, measure
       words |-> {
         <<1077, 1076>>,
         <<1077, 1076, 1080, 1085, 1080, 1094, 1072>>,
         <<1080, 1079, 1084>>,
         <<117, 110, 105, 116>>,
         <<109, 101, 97, 115, 117, 114, 101>> } ],
     [ field |-> "price",
       \* цена, стоимость, price, cost, тариф
       words |-> {
         <<1094, 1077, 1085, 1072>>,
         <<1089, 1090, 1086, 1080, 1084, 1086, 1089, 1090, 1100>>,
         <<112, 114, 105, 99, 101>>,
         <<99, 111, 115, 116>>,
         <<1090, 1072, 1088, 1080, 1092>> } ],
     [ field |-> "total",
       \* сумма, итого, total, sum, стоимость
       words |-> {
         <<1089, 1091, 1084, 1084, 1072>>,
         <<1080, 1090, 1086, 1075, 1086>>,
         <<116, 111, 116, 97, 108>>,
         <<115, 117, 109>>,
         <<1089, 1090, 1086, 1080, 1084, 1086, 1089, 1090, 1100>> } ]
  >>

\* CompetitiveParser.header_patterns, in the order of the dict
competitive_header_patterns ==
  <<
     [ field |-> "name",
       \* наименование, название, товар, описание, name, description, item, product, наименование товара, название товара, описание товара
       words |-> {
         <<1085, 1072, 1080, 1084, 1077, 1085, 1086, 1074, 1072, 1085, 1080, 1077>>,
         <<1085, 1072, 1079, 1074, 1072, 1085, 1080, 1077>>,
         <<1090, 1086, 1074, 1072, 1088>>,
         <<1086, 1087, 1080, 1089, 1072, 1085, 1080, 1077>>,
         <<110, 97, 109, 101>>,
         <<100, 101, 115, 99, 114, 105, 112, 116, 105, 111, 110>>,
         <<105, 116, 101, 109>>,
         <<112, 114, 111, 100, 117, 99, 116>>,
         <<1085, 1072, 1080, 1084, 1077, 1085, 1086, 1074, 1072, 1085, 1080, 1077, 32, 1090, 1086, 1074, 1072, 1088, 1072>>,
         <<1085, 1072, 1079, 1074, 1072, 1085, 1080, 1077, 32, 1090, 1086, 1074, 1072, 1088, 1072>>,
         <<1086, 1087, 1080, 1089, 1072, 1085, 1080, 1077, 32, 1090, 1086, 1074, 1072, 1088, 1072>> } ],
     [ field |-> "qty",
       \* количество, кол-во, кол, qty, quantity, amount, шт, объем, количество товара, объем поставки
       words |-> {
         <<1082, 1086, 1083, 1080, 1095, 1077, 1089, 1090, 1074, 1086>>,
         <<1082, 1086, 1083, 45, 1074, 1086>>,
         <<1082, 1086, 1083>>,
         <<113, 116, 121>>,
         <<113, 117, 97, 110, 116, 105, 116, 121>>,
         <<97, 109, 111, 117, 110, 116>>,
         <<1096, 1090>>,
         <<1086, 1073, 1098, 1077, 1084>>,
         <<1082, 1086, 1083, 1080, 1095, 1077, 1089, 1090, 1074, 1086, 32, 1090, 1086, 1074, 1072, 1088, 1072>>,
         <<1086, 1073, 1098, 1077, 1084, 32, 1087, 1086, 1089, 1090, 1072, 1074, 1082, 1080>> } ],
     [ field |-> "unit",
       \* единица, ед.изм, ед, unit, measure, измерение, единица измерения, ед. изм
       words |-> {
         <<1077, 1076, 1080, 1085, 1080, 1094, 1072>>,
         <<1077, 1076, 46, 1080, 1079, 1084>>,
         <<1077, 1076>>,
         <<117, 110, 105, 116>>,
         <<109, 101, 97, 115, 117, 114, 101>>,
         <<1080, 1079, 1084, 1077, 1088, 1077, 1085, 1080, 1077>>,
         <<1077, 1076, 1080, 1085, 1080, 1094, 1072, 32, 1080, 1079, 1084, 1077, 1088, 1077, 1085, 1080, 1103>>,
         <<1077, 1076, 46, 32, 1080, 1079, 1084>> } ],
     [ field |-> "price",
       \* цена, стоимость, price, cost, rate, тариф, цена за единицу, стоимость единицы, цена закупки
       words |-> {
         <<1094, 1077, 1085, 1072>>,
         <<1089, 1090, 1086, 1080, 1084, 1086, 1089, 1090, 1100>>,
         <<112, 114, 105, 99, 101>>,
         <<99, 111, 115, 116>>,
         <<114, 97, 116, 101>>,
         <<1090, 1072, 1088, 1080, 1092>>,
         <<1094, 1077, 1085, 1072, 32, 1079, 1072, 32, 1077, 1076, 1080, 1085, 1080, 1094, 1091>>,
         <<1089, 1090, 1086, 1080, 1084, 1086, 1089, 1090, 1100, 32, 1077, 1076, 1080, 1085, 1080, 1094, 1099>>,
         <<1094, 1077, 1085, 1072, 32, 1079, 1072, 1082, 1091, 1087, 1082, 1080>> } ],
     [ field |-> "currency",
       \* валюта, currency, curr, руб, usd, eur, рубль, доллар, евро
       words |-> {
         <<1074, 1072, 1083, 1102, 1090, 1072>>,
         <<99, 117, 114, 114, 101, 110, 99, 121>>,
         <<99, 117, 114, 114>>,
         <<1088, 1091, 1073>>,
         <<117, 115, 100>>,
         <<101, 117, 114>>,
         <<1088, 1091, 1073, 1083, 1100>>,
         <<1076, 1086, 1083, 1083, 1072, 1088>>,
         <<1077, 1074, 1088, 1086>> } ],
     [ field |-> "total",
       \* сумма, итого, total, sum, amount, стоимость, общая сумма, стоимость позиции
       words |-> {
         <<1089, 1091, 1084, 1084, 1072>>,
         <<1080, 1090, 1086, 1075, 1086>>,
         <<116, 111, 116, 97, 108>>,
         <<115, 117, 109>>,
         <<97, 109, 111, 117, 110, 116>>,
         <<1089, 1090, 1086, 1080, 1084, 1086, 1089, 1090, 1100>>,
         <<1086, 1073, 1097, 1072, 1103, 32, 1089, 1091, 1084, 1084, 1072>>,
         <<1089, 1090, 1086, 1080, 1084, 1086, 1089, 1090, 1100, 32, 1087, 1086, 1079, 1080, 1094, 1080, 1080>> } ],
     [ field |-> "supplier",
       \* поставщик, supplier, vendor, компания, организация, наименование поставщика
       words |-> {
         <<1087, 1086, 1089, 1090, 1072, 1074, 1097, 1080, 1082>>,
         <<115, 117, 112, 112, 108, 105, 101, 114>>,
         <<118, 101, 110, 100, 111, 114>>,
         <<1082, 1086, 1084, 1087, 1072, 1085, 1080, 1103>>,
         <<1086, 1088, 1075, 1072, 1085, 1080, 1079, 1072, 1094, 1080, 1103>>,
         <<1085, 1072, 1080, 1084, 1077, 1085, 1086, 1074, 1072, 1085, 1080, 1077, 32, 1087, 1086, 1089, 1090, 1072, 1074, 1097, 1080, 1082, 1072>> } ]
  >>

\* the if/elif chain of InvoiceParser._identify_invoice_columns, in its order
invoice_header_words ==
  <<
     [ field |-> "number",
       \* №, номер, позиция
       words |-> {
         <<8470>>,
         <<1085, 1086, 1084, 1077, 1088>>,
         <<1087, 1086, 1079, 1080, 1094, 1080, 1103>> } ],
     [ field |-> "article",
       \* артикул, код, арт
       words |-> {
         <<1072, 1088, 1090, 1080, 1082, 1091, 1083>>,
         <<1082, 1086, 1076>>,
         <<1072, 1088, 1090>> } ],
     [ field |-> "name",
       \* наименование, товары, работы, услуги, название
       words |-> {
         <<1085, 1072, 1080, 1084, 1077, 1085, 1086, 1074, 1072, 1085, 1080, 1077>>,
         <<1090, 1086, 1074, 1072, 1088, 1099>>,
         <<1088, 1072, 1073, 1086, 1090, 1099>>,
         <<1091, 1089, 1083, 1091, 1075, 1080>>,
         <<1085, 1072, 1079, 1074, 1072, 1085, 1080, 1077>> } ],
     [ field |-> "qty",
       \* количество, кол-во, колво
       words |-> {
         <<1082, 1086, 1083, 1080, 1095, 1077, 1089, 1090, 1074, 1086>>,
         <<1082, 1086, 1083, 45, 1074, 1086>>,
         <<1082, 1086, 1083, 1074, 1086>> } ],
     [ field |-> "unit",
       \* ед, единица, изм
       words |-> {
         <<1077, 1076>>,
         <<1077, 1076, 1080, 1085, 1080, 1094, 1072>>,
         <<1080, 1079, 1084>> } ],
     [ field |-> "price",
       \* цена, стоимость, руб
       words |-> {
         <<1094, 1077, 1085, 1072>>,
         <<1089, 1090, 1086, 1080, 1084, 1086, 1089, 1090, 1100>>,
         <<1088, 1091, 1073>> } ],
     [ field |-> "total",
       \* сумма, итого, всего
       words |-> {
         <<1089, 1091, 1084, 1084, 1072>>,
         <<1080, 1090, 1086, 1075, 1086>>,
         <<1074, 1089, 1077, 1075, 1086>> } ]
  >>

\* the if/elif chain of CompetitiveParser._identify_columns_by_content, in its order
content_words ==
  <<
     [ field |-> "name",
       \* наимен, название, описание, товар
       words |-> {
         <<1085, 1072, 1080, 1084, 1077, 1085>>,
         <<1085, 1072, 1079, 1074, 1072, 1085, 1080, 1077>>,
         <<1086, 1087, 1080, 1089, 1072, 1085, 1080, 1077>>,
         <<1090, 1086, 1074, 1072, 1088>> } ],
     [ field |-> "qty",
       \* кол-во, количество, qty, amount
       words |-> {
         <<1082, 1086, 1083, 45, 1074, 1086>>,
         <<1082, 1086, 1083, 1080, 1095, 1077, 1089, 1090, 1074, 1086>>,
         <<113, 116, 121>>,
         <<97, 109, 111, 117, 110, 116>> } ],
     [ field |-> "unit",
       \* ед, единица, изм, unit
       words |-> {
         <<1077, 1076>>,
         <<1077, 1076, 1080, 1085, 1080, 1094, 1072>>,
         <<1080, 1079, 1084>>,
         <<117, 110, 105, 116>> } ],
     [ field |-> "price",
       \* цена, стоимость, price, cost
       words |-> {
         <<1094, 1077, 1085, 1072>>,
         <<1089, 1090, 1086, 1080, 1084, 1086, 1089, 1090, 1100>>,
         <<112, 114, 105, 99, 101>>,
         <<99, 111, 115, 116>> } ],
     [ field |-> "total",
       \* сумма, итого, total, sum
       words |-> {
         <<1089, 1091, 1084, 1084, 1072>>,
         <<1080, 1090, 1086, 1075, 1086>>,
         <<116, 111, 116, 97, 108>>,
         <<115, 117, 109>> } ]
  >>

\* the words of a position-number column in _identify_columns_by_content:
\* №, номер, n, number
content_number_words ==
  { <<8470>>,
    <<1085, 1086, 1084, 1077, 1088>>,
    <<110>>,
    <<110, 117, 109, 98, 101, 114>> }

\* the header cell "№"
HeaderNumber == <<8470>>

\* the header cell "Наименование"
HeaderName == <<1053, 1072, 1080, 1084, 1077, 1085, 1086, 1074, 1072, 1085, 1080, 1077>>

\* the header cell "Кол-во"
HeaderQty == <<1050, 1086, 1083, 45, 1074, 1086>>

\* the header cell "Ед.изм"
HeaderUnit == <<1045, 1076, 46, 1080, 1079, 1084>>

\* the header cell "Цена"
HeaderPrice == <<1062, 1077, 1085, 1072>>

\* the header cell "Сумма"
HeaderTotal == <<1057, 1091, 1084, 1084, 1072>>

\* the header cell "Номер"
HeaderNomer == <<1053, 1086, 1084, 1077, 1088>>

\* the header cell "Срок"
HeaderTerm == <<1057, 1088, 1086, 1082>>

(***************************************************************************)
(* Column identification from the header row of a table.  A mapping is a   *)
(* function from the fields it holds to 0-based column indexes.            *)
(***************************************************************************)
\* mapping = {}
EmptyMapping == [f \in {} |-> 0]

\* mapping[field] = col_idx
Put(mapping, field, col_idx) ==
  [f \in (DOMAIN mapping) \cup {field} |-> IF f = field THEN col_idx ELSE mapping[f]]

\* return None
NoMapping == [none |-> TRUE, mapping |-> EmptyMapping]

\* return mapping
SomeMapping(mapping) == [none |-> FALSE, mapping |-> mapping]

\* \w of the re module on str: letters, digits and the underscore
IsWordChar(c) == IsAlpha(c) \/ IsDigit(c) \/ c = 95

\* re.sub(r'[^\w\s]', ' ', s)
PunctuationToSpace(s) ==
  [i \in 1..Len(s) |-> IF IsWordChar(s[i]) \/ IsSpace(s[i]) THEN s[i] ELSE 32]

\* ' '.join(s.split())
Collapse(s) ==
  LET keep(i) == \/ ~IsSpace(s[i])
                 \/ /\ i > 1 /\ ~IsSpace(s[i - 1])
                    /\ \E j \in (i + 1)..Len(s) : ~IsSpace(s[j])
      idx == SelectSeq([i \in 1..Len(s) |-> i], keep)
  IN  [k \in 1..Len(idx) |-> IF IsSpace(s[idx[k]]) THEN 32 ELSE s[idx[k]]]

\* col_name_str of the pattern loops: lower, strip, punctuation to spaces,
\* runs of whitespace to one space
CleanHeader(col_name) == Collapse(PunctuationToSpace(Strip(Lower(col_name))))

\* the header cells the tables are built from
HeaderCells ==
  { HeaderNumber, HeaderName, HeaderQty, HeaderUnit, HeaderPrice, HeaderTotal,
    HeaderNomer, HeaderTerm }

\* the fields whose patterns occur in a string, for every header cell
FieldsIn(patterns, s) ==
  {patterns[k].field : k \in {k \in 1..Len(patterns) :
      \E w \in patterns[k].words : Contains(s, Lower(w))}}

universal_hits == [c \in HeaderCells |-> FieldsIn(column_synonyms, CleanHeader(c))]

commercial_hits == [c \in HeaderCells |-> FieldsIn(commercial_header_patterns, CleanHeader(c))]

competitive_hits == [c \in HeaderCells |-> FieldsIn(competitive_header_patterns, CleanHeader(c))]

\* col_str = str(col).lower() of _identify_invoice_columns: no cleaning
invoice_hits == [c \in HeaderCells |-> FieldsIn(invoice_header_words, Lower(c))]

\* col_name_str = str(col_name).lower().strip() of _identify_columns_by_content
content_hits == [c \in HeaderCells |-> FieldsIn(content_words, Strip(Lower(c)))]

content_number_hits ==
  [c \in HeaderCells |-> ContainsAny(Strip(Lower(c)), content_number_words)]

RECURSIVE FieldLoop(_, _, _, _, _)
\* for field, patterns in header_patterns.items(): the inner loop sets the
\* field on a hit, and `if field in mapping: break` leaves the loop at the
\* first field the mapping holds, set by this column or by an earlier one
FieldLoop(patterns, hits, k, col_idx, mapping) ==
  IF k > Len(patterns) THEN mapping
  ELSE LET field == patterns[k].field
           after == IF field \in hits THEN Put(mapping, field, col_idx) ELSE mapping
       IN  IF field \in DOMAIN after THEN after
           ELSE FieldLoop(patterns, hits, k + 1, col_idx, after)

RECURSIVE ColumnLoop(_, _, _, _, _)
\* for col_idx, col_name in enumerate(columns), from column i (1-based) on
ColumnLoop(patterns, hits, columns, i, mapping) ==
  IF i > Len(columns) THEN mapping
  ELSE ColumnLoop(patterns, hits, columns, i + 1,
                  FieldLoop(patterns, hits[columns[i]], 1, i - 1, mapping))

\* if 'name' in mapping and len(mapping) >= 2: return mapping; return None
AcceptTwoFields(mapping) ==
  IF "name" \in DOMAIN mapping /\ Cardinality(DOMAIN mapping) >= 2
    THEN SomeMapping(mapping) ELSE NoMapping

\* UniversalParser._identify_columns_by_synonyms
_identify_columns_by_synonyms(columns) ==
  AcceptTwoFields(ColumnLoop(column_synonyms, universal_hits, columns, 1, EmptyMapping))

\* CommercialProposalParser._identify_columns_by_position
commercial_identify_columns_by_position(columns) ==
  IF Len(columns) >= 11
    THEN [f \in {"number", "name", "qty", "unit", "price", "total"} |->
           CASE f = "number" -> 0 [] f = "name" -> 1 [] f = "qty" -> 5
             [] f = "unit" -> 6 [] f = "price" -> 8 [] f = "total" -> 10]
  ELSE IF Len(columns) >= 6
    THEN [f \in {"number", "name", "qty", "unit", "price", "total"} |->
           CASE f = "number" -> 0 [] f = "name" -> 1 [] f = "qty" -> 2
             [] f = "unit" -> 3 [] f = "price" -> 4 [] f = "total" -> 5]
  ELSE IF Len(columns) >= 4
    THEN [f \in {"name", "qty", "price", "total"} |->
           CASE f = "name" -> 0 [] f = "qty" -> 1 [] f = "price" -> 2 [] f = "total" -> 3]
  ELSE EmptyMapping

\* CommercialProposalParser._identify_commercial_columns
_identify_commercial_columns(columns) ==
  IF Len(columns) >= 11
    THEN SomeMapping(commercial_identify_columns_by_position(columns))
  ELSE LET found == ColumnLoop(commercial_header_patterns, commercial_hits,
                               columns, 1, EmptyMapping)
       IN  AcceptTwoFields(IF DOMAIN found = {}
                             THEN commercial_identify_columns_by_position(columns)
                             ELSE found)

\* the first field of an if/elif chain whose words occur in the cell, "" if none
FirstField(chain, hits) ==
  LET hit == {k \in 1..Len(chain) : chain[k].field \in hits}
  IN  IF hit = {} THEN ""
      ELSE chain[CHOOSE k \in hit : \A j \in hit : k <= j].field

RECURSIVE ContentLoop(_, _, _)
\* the loop of _identify_columns_by_content: a number column is skipped; each
\* elif arm needs its field to be free, so the column takes the first field of
\* the chain that is free and whose words occur
ContentLoop(columns, i, mapping) ==
  IF i > Len(columns) THEN mapping
  ELSE LET free == content_hits[columns[i]] \ DOMAIN mapping
           field == FirstField(content_words, free)
       IN  ContentLoop(columns, i + 1,
             IF content_number_hits[columns[i]] \/ field = "" THEN mapping
             ELSE Put(mapping, field, i - 1))

\* CompetitiveParser._identify_columns_by_content
_identify_columns_by_content(columns) ==
  LET found == ContentLoop(columns, 1, EmptyMapping)
  IN  IF DOMAIN found = {} /\ Len(columns) >= 3
        THEN [f \in {"name", "qty", "price"} |->
               CASE f = "name" -> 1 [] f = "qty" -> 2 [] f = "price" -> 3]
        ELSE found

\* CompetitiveParser._identify_competitive_columns
_identify_competitive_columns(columns) ==
  LET found == ColumnLoop(competitive_header_patterns, competitive_hits,
                          columns, 1, EmptyMapping)
  IN  AcceptTwoFields(IF DOMAIN found = {} THEN _identify_columns_by_content(columns)
                      ELSE found)

\* InvoiceParser._identify_columns_by_position
invoice_identify_columns_by_position(columns) ==
  IF Len(columns) >= 7
    THEN [f \in {"number", "article", "name", "qty", "unit", "price", "total"} |->
           CASE f = "number" -> 0 [] f = "article" -> 1 [] f = "name" -> 2
             [] f = "qty" -> 3 [] f = "unit" -> 4 [] f = "price" -> 5 [] f = "total" -> 6]
  ELSE IF Len(columns) >= 6
    THEN [f \in {"number", "name", "qty", "unit", "price", "total"} |->
           CASE f = "number" -> 0 [] f = "name" -> 1 [] f = "qty" -> 2
             [] f = "unit" -> 3 [] f = "price" -> 4 [] f = "total" -> 5]
  ELSE IF Len(columns) >= 5
    THEN [f \in {"number", "name", "qty", "price", "total"} |->
           CASE f = "number" -> 0 [] f = "name" -> 1 [] f = "qty" -> 2
             [] f = "price" -> 3 [] f = "total" -> 4]
  ELSE EmptyMapping

RECURSIVE InvoiceLoop(_, _, _)
\* the loop of _identify_invoice_columns: the first arm of the if/elif chain
\* whose words occur sets its field, a later column overwrites an earlier one
InvoiceLoop(columns, i, mapping) ==
  IF i > Len(columns) THEN mapping
  ELSE LET field == FirstField(invoice_header_words, invoice_hits[columns[i]])
       IN  InvoiceLoop(columns, i + 1,
             IF field = "" THEN mapping ELSE Put(mapping, field, i - 1))

\* if 'name' in mapping and ('qty' in mapping or 'price' in mapping)
AcceptNameAndAmount(mapping) ==
  IF "name" \in DOMAIN mapping /\ ("qty" \in DOMAIN mapping \/ "price" \in DOMAIN mapping)
    THEN SomeMapping(mapping) ELSE NoMapping

\* InvoiceParser._identify_invoice_columns
_identify_invoice_columns(columns) ==
  LET found == InvoiceLoop(columns, 1, EmptyMapping)
  IN  AcceptNameAndAmount(IF DOMAIN found = {}
                            THEN invoice_identify_columns_by_position(columns)
                            ELSE found)

(***************************************************************************)
(* The specification of column identification: a header row is drawn, and  *)
(* one of the strategies identifies its columns.                           *)
(***************************************************************************)
\* the header row of the documented table
DocumentedHeaders ==
  << HeaderNumber, HeaderName, HeaderQty, HeaderUnit, HeaderPrice, HeaderTotal >>

\* table.columns: the documented header row and every short row of header cells
HeaderRows ==
  {DocumentedHeaders} \cup UNION {[1..n -> HeaderCells] : n \in 1..MaxCols}

InitColumns ==
  /\ Fresh
  /\ NoOcr
  /\ NoGui
  /\ dpc = "off" /\ d_in = <<>> /\ d_once = <<>> /\ d_twice = <<>>
  /\ fpc = "identify_columns"
  /\ arg \in HeaderRows
  /\ ret = <<>>

IdentifyUniversal ==
  /\ fpc = "identify_columns"
  /\ Returns(_identify_columns_by_synonyms(arg), "universal_columns")

IdentifyCommercial ==
  /\ fpc = "identify_columns"
  /\ Returns(_identify_commercial_columns(arg), "commercial_columns")

IdentifyCompetitive ==
  /\ fpc = "identify_columns"
  /\ Returns(_identify_competitive_columns(arg), "competitive_columns")

IdentifyInvoice ==
  /\ fpc = "identify_columns"
  /\ Returns(_identify_invoice_columns(arg), "invoice_columns")

NextColumns ==
  \/ IdentifyUniversal
  \/ IdentifyCommercial
  \/ IdentifyCompetitive
  \/ IdentifyInvoice

SpecColumns == InitColumns /\ [][NextColumns]_vars

(***************************************************************************)
(* The precise table parser: word lists, columns and cell texts.           *)
(***************************************************************************)
\* the if/elif chain of PreciseTableParser._identify_columns, in its order
precise_header_words ==
  <<
     [ field |-> "number",
       \* №, номер, позиция
       words |-> {
         <<8470>>,
         <<1085, 1086, 1084, 1077, 1088>>,
         <<1087, 1086, 1079, 1080, 1094, 1080, 1103>> } ],
     [ field |-> "article",
       \* артикул, код, арт
       words |-> {
         <<1072, 1088, 1090, 1080, 1082, 1091, 1083>>,
         <<1082, 1086, 1076>>,
         <<1072, 1088, 1090>> } ],
     [ field |-> "name",
       \* наименование, товары, работы, услуги, название, наимен
       words |-> {
         <<1085, 1072, 1080, 1084, 1077, 1085, 1086, 1074, 1072, 1085, 1080, 1077>>,
         <<1090, 1086, 1074, 1072, 1088, 1099>>,
         <<1088, 1072, 1073, 1086, 1090, 1099>>,
         <<1091, 1089, 1083, 1091, 1075, 1080>>,
         <<1085, 1072, 1079, 1074, 1072, 1085, 1080, 1077>>,
         <<1085, 1072, 1080, 1084, 1077, 1085>> } ],
     [ field |-> "qty",
       \* количество, кол-во, колво
       words |-> {
         <<1082, 1086, 1083, 1080, 1095, 1077, 1089, 1090, 1074, 1086>>,
         <<1082, 1086, 1083, 45, 1074, 1086>>,
         <<1082, 1086, 1083, 1074, 1086>> } ],
     [ field |-> "unit",
       \* ед, единица, изм
       words |-> {
         <<1077, 1076>>,
         <<1077, 1076, 1080, 1085, 1080, 1094, 1072>>,
         <<1080, 1079, 1084>> } ],
     [ field |-> "price",
       \* цена, стоимость, руб, без ндс
       words |-> {
         <<1094, 1077, 1085, 1072>>,
         <<1089, 1090, 1086, 1080, 1084, 1086, 1089, 1090, 1100>>,
         <<1088, 1091, 1073>>,
         <<1073, 1077, 1079, 32, 1085, 1076, 1089>> } ],
     [ field |-> "total",
       \* сумма, итого, всего, с ндс
       words |-> {
         <<1089, 1091, 1084, 1084, 1072>>,
         <<1080, 1090, 1086, 1075, 1086>>,
         <<1074, 1089, 1077, 1075, 1086>>,
         <<1089, 32, 1085, 1076, 1089>> } ]
  >>

\* header_indicators of PreciseTableParser._is_header_row:
\* №, номер, артикул, товары, количество, цена, сумма, наименование, наимен
header_indicators ==
  { <<8470>>,
    <<1085, 1086, 1084, 1077, 1088>>,
    <<1072, 1088, 1090, 1080, 1082, 1091, 1083>>,
    <<1090, 1086, 1074, 1072, 1088, 1099>>,
    <<1082, 1086, 1083, 1080, 1095, 1077, 1089, 1090, 1074, 1086>>,
    <<1094, 1077, 1085, 1072>>,
    <<1089, 1091, 1084, 1084, 1072>>,
    <<1085, 1072, 1080, 1084, 1077, 1085, 1086, 1074, 1072, 1085, 1080, 1077>>,
    <<1085, 1072, 1080, 1084, 1077, 1085>> }

\* the columns of the documented over-segmented table:
\* '№', 'Наимен', 'ование', '', '', 'Кол-во', 'Ед. изм.', 'Срок поставки', 'Цена (б', 'ез НДС)', 'Сумма (с НДС)', '_page', '_table_id'
DocumentedColumns ==
  << <<8470>>,
     <<1053, 1072, 1080, 1084, 1077, 1085>>,
     <<1086, 1074, 1072, 1085, 1080, 1077>>,
     <<>>,
     <<>>,
     <<1050, 1086, 1083, 45, 1074, 1086>>,
     <<1045, 1076, 46, 32, 1080, 1079, 1084, 46>>,
     <<1057, 1088, 1086, 1082, 32, 1087, 1086, 1089, 1090, 1072, 1074, 1082, 1080>>,
     <<1062, 1077, 1085, 1072, 32, 40, 1073>>,
     <<1077, 1079, 32, 1053, 1044, 1057, 41>>,
     <<1057, 1091, 1084, 1084, 1072, 32, 40, 1089, 32, 1053, 1044, 1057, 41>>,
     <<95, 112, 97, 103, 101>>,
     <<95, 116, 97, 98, 108, 101, 95, 105, 100>> >>

\* the columns of a 13-column table without header row: 0, 1, ..., 12
NumberedColumns ==
  << <<48>>,
     <<49>>,
     <<50>>,
     <<51>>,
     <<52>>,
     <<53>>,
     <<54>>,
     <<55>>,
     <<56>>,
     <<57>>,
     <<49, 48>>,
     <<49, 49>>,
     <<49, 50>> >>

\* the text "None"
TextNone == <<78, 111, 110, 101>>

\* the text "1"
TextOne == <<49>>

\* the text "Кабель"
TextCable == <<1050, 1072, 1073, 1077, 1083, 1100>>

\* the text "Итого:"
TextTotalRow == <<1048, 1090, 1086, 1075, 1086, 58>>

\* the text "силовой"
TextPower == <<1089, 1080, 1083, 1086, 1074, 1086, 1081>>

\* the text "нг"
TextNg == <<1085, 1075>>

\* the text "2"
TextTwo == <<50>>

\* the text "100"
TextHundred == <<49, 48, 48>>

\* the text "м"
TextMetre == <<1084>>

\* the text "50,00"
TextFifty == <<53, 48, 44, 48, 48>>

\* the text "5"
TextFive == <<53>>

\* the text "100,00"
TextHundredRoubles == <<49, 48, 48, 44, 48, 48>>

(***************************************************************************)
(* The precise table parser on one table.  A cell is a string or NaN; a    *)
(* text field of an item that is None is written as the empty string.      *)
(***************************************************************************)
Cell(text) == [nan |-> FALSE, text |-> text]

\* a cell for which pd.isna holds
NaN == [nan |-> TRUE, text |-> <<>>]

\* str(value) of a cell; str(float('nan')) is 'nan'
Str(cell) == IF cell.nan THEN <<110, 97, 110>> ELSE cell.text

\* the first arm of the if/elif chain of _identify_columns taken by a column
PreciseFieldOf(col) ==
  FirstField(precise_header_words,
             FieldsIn(precise_header_words, Collapse(Lower(col))))

RECURSIVE PreciseLoop(_, _, _)
\* for i, col in enumerate(columns): a later column overwrites an earlier one
PreciseLoop(columns, i, mapping) ==
  IF i > Len(columns) THEN mapping
  ELSE LET field == PreciseFieldOf(columns[i])
       IN  PreciseLoop(columns, i + 1,
             IF field = "" THEN mapping ELSE Put(mapping, field, i - 1))

\* PreciseTableParser._identify_by_position
_identify_by_position(columns) ==
  IF Len(columns) >= 13
    THEN [f \in {"number", "name", "qty", "unit", "price", "total"} |->
           CASE f = "number" -> 0 [] f = "name" -> 1 [] f = "qty" -> 5
             [] f = "unit" -> 6 [] f = "price" -> 8 [] f = "total" -> 10]
  ELSE IF Len(columns) >= 10
    THEN [f \in {"number", "article", "name", "qty", "unit", "price", "total"} |->
           CASE f = "number" -> 0 [] f = "article" -> 1 [] f = "name" -> 2
             [] f = "qty" -> 3 [] f = "unit" -> 4 [] f = "price" -> 5 [] f = "total" -> 6]
  ELSE IF Len(columns) >= 6
    THEN [f \in {"number", "name", "qty", "unit", "price", "total"} |->
           CASE f = "number" -> 0 [] f = "name" -> 1 [] f = "qty" -> 2
             [] f = "unit" -> 3 [] f = "price" -> 4 [] f = "total" -> 5]
  ELSE IF Len(columns) >= 4
    THEN [f \in {"name", "qty", "price", "total"} |->
           CASE f = "name" -> 0 [] f = "qty" -> 1 [] f = "price" -> 2 [] f = "total" -> 3]
  ELSE EmptyMapping

\* PreciseTableParser._identify_columns
_identify_columns(columns) ==
  LET found == PreciseLoop(columns, 1, EmptyMapping)
  IN  AcceptNameAndAmount(IF DOMAIN found = {} THEN _identify_by_position(columns)
                          ELSE found)

\* the product of two floats
FloatTimes(a, b) == Float(a.mantissa * b.mantissa, a.scale + b.scale)

\* the item dict of _extract_item_from_row
PreciseItem(number, name, qty, unit, price, total) ==
  [ number |-> number, name |-> name, qty |-> qty, unit |-> unit,
    price |-> price, total |-> total, confidence |-> 95 ]

RECURSIVE JoinFragments(_, _, _, _)
\* for i in range(1, 5): the cell i columns after the name column is appended
\* when it is a string of more than 2 characters after strip()
JoinFragments(name, row, name_col, i) ==
  IF i > 4 THEN name
  ELSE LET present == name_col + i < Len(row) /\ ~row[name_col + i + 1].nan
           next_value == IF present THEN Strip(row[name_col + i + 1].text) ELSE <<>>
           joined == IF present /\ next_value # <<>> /\ next_value # TextNone
                        /\ Len(next_value) > 2
                       THEN name \o <<32>> \o Collapse(next_value)
                       ELSE name
       IN  JoinFragments(joined, row, name_col, i + 1)

\* PreciseTableParser._extract_item_from_row; <<>> is None, <<item>> an item
_extract_item_from_row(row, mapping) ==
  LET Field(f) == IF f \in DOMAIN mapping /\ mapping[f] < Len(row)
                    THEN row[mapping[f] + 1] ELSE NaN
      TextOf(f) == IF Field(f).nan THEN <<>> ELSE Collapse(Field(f).text)
      NumberOf(f) == IF Field(f).nan THEN NoFloat ELSE _parse_number(Field(f).text)
      beside == IF "unit" \in DOMAIN mapping /\ mapping["unit"] + 1 < Len(row)
                  THEN row[mapping["unit"] + 2] ELSE NaN
      unit == IF "unit" \in DOMAIN mapping /\ TextOf("unit") = <<>> /\ ~beside.nan
                   /\ Strip(beside.text) # <<>> /\ Strip(beside.text) # TextNone
                   /\ Len(Strip(beside.text)) <= 5
                THEN Strip(beside.text) ELSE TextOf("unit")
      name == IF "name" \in DOMAIN mapping /\ TextOf("name") # <<>>
                THEN JoinFragments(TextOf("name"), row, mapping["name"], 1)
                ELSE TextOf("name")
      qty == NumberOf("qty")
      price == NumberOf("price")
      total == NumberOf("total")
  IN  IF name = <<>> \/ qty.none \/ price.none THEN <<>>
      ELSE << PreciseItem(TextOf("number"), name, qty, unit, price,
                IF total.none /\ qty.mantissa # 0 /\ price.mantissa # 0
                  THEN FloatTimes(qty, price) ELSE total) >>

\* PreciseTableParser._is_valid_product: the tests read the name and the signs
\* of qty and price
_is_valid_product(item) ==
  precise_is_valid_product(
    [name |-> item.name, qty |-> item.qty.mantissa, price |-> item.price.mantissa])

\* the texts of the cells of the rows
PreciseTexts ==
  { TextOne, TextCable, TextTotalRow, TextPower, TextNg, <<>>, TextTwo,
    TextHundred, TextMetre, TextFifty, TextFive, TextHundredRoubles }

\* any(word in cell_str for word in self.exclude_words), for every cell text
service_cell ==
  [t \in PreciseTexts |-> ContainsAny(Lower(t), precise_exclude_words)]

\* PreciseTableParser._is_service_row
precise_is_service_row(row) ==
  \E k \in 1..Len(row) : ~row[k].nan /\ service_cell[row[k].text]

\* PreciseTableParser._is_header_row
_is_header_row(row) ==
  Len(row) > 0 /\ ContainsAny(Lower(Str(row[1])), header_indicators)

RECURSIVE RowLoop(_, _, _)
\* for row_idx, row in table.iterrows(), from row i on
RowLoop(table_rows, mapping, i) ==
  IF i > Len(table_rows) THEN <<>>
  ELSE LET row == table_rows[i]
           item == IF _is_header_row(row) \/ precise_is_service_row(row) THEN <<>>
                   ELSE _extract_item_from_row(row, mapping)
       IN  (IF item # <<>> /\ _is_valid_product(item[1]) THEN item ELSE <<>>)
             \o RowLoop(table_rows, mapping, i + 1)

\* PreciseTableParser._extract_from_table
_extract_from_table(table) ==
  LET column_mapping == _identify_columns(table.columns)
  IN  IF column_mapping.none THEN <<>>
      ELSE RowLoop(table.rows, column_mapping.mapping, 1)

(***************************************************************************)
(* The specification of the precise table parser: a 13-column table with   *)
(* one data row is drawn and parsed.                                       *)
(***************************************************************************)
\* the cells of the name-fragment columns 2, 3 and 4
FragmentCells == {Cell(TextPower), Cell(TextNg), Cell(<<>>), NaN}

\* the rows of the documented layout: number, name, three name fragments,
\* qty, unit, delivery term, price, the second price column, total, _page,
\* _table_id
PreciseRows ==
  { << Cell(TextOne), Cell(n), f2, f3, f4, q, u, NaN, p, NaN, t,
       Cell(TextOne), Cell(TextOne) >> :
      n \in {TextCable, TextTotalRow},
      f2 \in FragmentCells, f3 \in FragmentCells, f4 \in FragmentCells,
      q \in {Cell(TextTwo), Cell(TextHundred), NaN},
      u \in {Cell(TextMetre), Cell(<<>>)},
      p \in {Cell(TextFifty), Cell(TextFive)},
      t \in {Cell(TextHundredRoubles), NaN} }

PreciseTables ==
  [columns : {DocumentedColumns, NumberedColumns}, rows : {<<r>> : r \in PreciseRows}]

InitPrecise ==
  /\ Fresh
  /\ NoOcr
  /\ NoGui
  /\ dpc = "off" /\ d_in = <<>> /\ d_once = <<>> /\ d_twice = <<>>
  /\ fpc = "extract_from_table"
  /\ arg \in PreciseTables
  /\ ret = <<>>

ExtractFromTable ==
  /\ fpc = "extract_from_table"
  /\ Returns(_extract_from_table(arg), "extract_from_table_done")

NextPrecise ==
  \/ ExtractFromTable

SpecPrecise == InitPrecise /\ [][NextPrecise]_vars

(***************************************************************************)
(* The text-quality gate of the enhanced extractor.                        *)
(***************************************************************************)
\* key_words of _check_text_quality:
\* товар, цена, количество, сумма, итого, ндс
key_words ==
  << <<1090, 1086, 1074, 1072, 1088>>,
     <<1094, 1077, 1085, 1072>>,
     <<1082, 1086, 1083, 1080, 1095, 1077, 1089, 1090, 1074, 1086>>,
     <<1089, 1091, 1084, 1084, 1072>>,
     <<1080, 1090, 1086, 1075, 1086>>,
     <<1085, 1076, 1089>> >>

\* the result dict of _check_text_quality
QualityInfo(needs_ocr, text_length, table_count, issues) ==
  [ needs_ocr |-> needs_ocr, text_length |-> text_length,
    table_count |-> table_count, issues |-> issues ]

\* sum(1 for word in key_words if word in text.lower())
found_words(text) ==
  Cardinality({k \in 1..Len(key_words) : Contains(Lower(text), key_words[k])})

\* sum(1 for table in tables if len(table) > 1 and len(table.columns) > 2)
valid_tables(table_list) ==
  Cardinality({k \in 1..Len(table_list) :
                 table_list[k].rows > 1 /\ table_list[k].columns > 2})

\* a check that counts the text as short up to 100 characters
TextIssuesUpTo100(text) ==
  (IF Len(Strip(text)) <= 100 THEN << "short_text" >> ELSE <<>>)
    \o (IF found_words(text) < 2 THEN << "few_key_words" >> ELSE <<>>)

\* the part of the check that reads the text: is it too short, has it too few
\* key words
TextIssues(text) ==
  (IF Len(Strip(text)) < 100 THEN << "short_text" >> ELSE <<>>)
    \o (IF found_words(text) < 2 THEN << "few_key_words" >> ELSE <<>>)

\* EnhancedExtractor._check_text_quality, given the issues of the text
QualityOf(text, table_list, text_issues) ==
  LET issues == text_issues
                  \o (IF table_list # <<>> /\ valid_tables(table_list) = 0
                        THEN << "no_valid_tables" >> ELSE <<>>)
  IN  QualityInfo(issues # <<>>, Len(text), Len(table_list), issues)

\* EnhancedExtractor._check_text_quality
_check_text_quality(text, table_list) ==
  QualityOf(text, table_list, TextIssues(text))

(***************************************************************************)
(* The specification of the gate: a text and a list of tables are drawn    *)
(* and checked.  A table is its number of rows and of columns.             *)
(***************************************************************************)
RECURSIVE WordsOf(_, _, _)
\* the key words with index in `chosen`, from index k on, each followed by a
\* space; the first letter is a capital when `capitals` holds
WordsOf(chosen, k, capitals) ==
  IF k > Len(key_words) THEN <<>>
  ELSE (IF k \in chosen
          THEN << IF capitals THEN key_words[k][1] - 32 ELSE key_words[k][1] >>
                 \o Tail(key_words[k]) \o << 32 >>
          ELSE <<>>)
       \o WordsOf(chosen, k + 1, capitals)

\* a text of `length` characters: the chosen key words, then the letter x
\* repeated; the style "padded" puts 3 spaces before and after it
QualityText(chosen, length, style) ==
  LET words == WordsOf(chosen, 1, style = "capitals")
      body == IF Len(words) >= length THEN SubSeq(words, 1, Len(words) - 1)
              ELSE words \o [i \in 1..(length - Len(words)) |-> 120]
  IN  IF style = "padded" THEN << 32, 32, 32 >> \o body \o << 32, 32, 32 >>
      ELSE body

QualityTexts ==
  { QualityText(chosen, length, style) :
      chosen \in SUBSET (1..Len(key_words)),
      length \in {40, 99, 100, 500},
      style \in {"plain", "padded", "capitals"} }

\* the issues of every text, found once
text_issues == [t \in QualityTexts |-> TextIssues(t)]

\* a table: len(table) and len(table.columns)
TableShapes == [rows : {1, 3}, columns : {2, 4}]

TableLists == UNION {[1..n -> TableShapes] : n \in 0..MaxTables}

InitQuality ==
  /\ Fresh
  /\ NoOcr
  /\ NoGui
  /\ dpc = "off" /\ d_in = <<>> /\ d_once = <<>> /\ d_twice = <<>>
  /\ fpc = "check_text_quality"
  /\ arg \in [text : QualityTexts, tables : TableLists]
  /\ ret = <<>>

CheckTextQuality ==
  /\ fpc = "check_text_quality"
  /\ Returns(QualityOf(arg.text, arg.tables, text_issues[arg.text]),
             "check_text_quality_done")

NextQuality ==
  \/ CheckTextQuality

SpecQuality == InitQuality /\ [][NextQuality]_vars

(***************************************************************************)
(* The OCR processor: recognising the images of a PDF and appending the    *)
(* recognised text to the text of the document.  A confidence is written   *)
(* in hundredths.                                                          *)
(***************************************************************************)
\* "[Страница "
TagOpen == <<91, 1057, 1090, 1088, 1072, 1085, 1080, 1094, 1072, 32>>

\* " OCR]: "
TagClose == <<32, 79, 67, 82, 93, 58, 32>>

\* f"[Страница {page_num} OCR]: {ocr_text}", for a page number below 10
PageTagged(page_num, ocr_text) ==
  TagOpen \o << 48 + page_num >> \o TagClose \o ocr_text

RECURSIVE JoinWith(_, _)
\* sep.join(parts)
JoinWith(sep, parts) ==
  IF parts = <<>> THEN <<>>
  ELSE IF Len(parts) = 1 THEN parts[1]
  ELSE parts[1] \o sep \o JoinWith(sep, Tail(parts))

\* OCRProcessor.process_image_with_ocr: "" without a reader or when the
\* preprocessing or readtext raises; else the fragments above confidence 0.5,
\* stripped and joined by spaces
process_image_with_ocr(reader, image) ==
  IF reader = "None" \/ image.raises THEN <<>>
  ELSE LET kept == SelectSeq(image.results, LAMBDA r : r.confidence > 50)
       IN  JoinWith(<< 32 >>, [k \in 1..Len(kept) |-> Strip(kept[k].text)])

\* the result of enhance_pdf_text: the text and enhancement_info
Enhanced(text, original_length, ocr_additions, images_processed, total_ocr_text) ==
  [ text |-> text,
    info |-> [ original_length |-> original_length, ocr_additions |-> ocr_additions,
               images_processed |-> images_processed,
               total_ocr_text |-> total_ocr_text ] ]

\* lengths of the recognised texts, summed
TotalLength(texts) == SumSeq([k \in 1..Len(texts) |-> Len(texts[k])])

\* an enhancement that returns the recognised blocks in place of the text
EnhanceReplacing(reader, images, original_text) ==
  LET recognised == [k \in 1..Len(images) |-> process_image_with_ocr(reader, images[k])]
      idx == SelectSeq([k \in 1..Len(images) |-> k], LAMBDA k : recognised[k] # <<>>)
      ocr_texts == [j \in 1..Len(idx) |-> PageTagged(images[idx[j]].page, recognised[idx[j]])]
  IN  Enhanced(IF ocr_texts = <<>> THEN original_text ELSE JoinWith(<< 10 >>, ocr_texts),
               Len(original_text), Len(ocr_texts), Len(images),
               TotalLength([j \in 1..Len(idx) |-> recognised[idx[j]]]))

\* OCRProcessor.enhance_pdf_text, for the images that extract_images_from_pdf
\* returns (none when the extraction fails)
enhance_pdf_text(reader, images, original_text) ==
  LET recognised == [k \in 1..Len(images) |-> process_image_with_ocr(reader, images[k])]
      idx == SelectSeq([k \in 1..Len(images) |-> k], LAMBDA k : recognised[k] # <<>>)
      ocr_texts == [j \in 1..Len(idx) |-> PageTagged(images[idx[j]].page, recognised[idx[j]])]
  IN  Enhanced(IF ocr_texts = <<>> THEN original_text
               ELSE original_text \o << 10, 10 >> \o JoinWith(<< 10 >>, ocr_texts),
               Len(original_text), Len(ocr_texts), Len(images),
               TotalLength([j \in 1..Len(idx) |-> recognised[idx[j]]]))

(***************************************************************************)
(* The specification of the enhancement: a text, a reader and the images   *)
(* of a PDF are drawn, and the text is enhanced.                           *)
(***************************************************************************)
\* a fragment of readtext: its text and its confidence
Fragments ==
  { [text |-> << 120 >>, confidence |-> 90],
    [text |-> << 120 >>, confidence |-> 50],
    [text |-> << 32 >>, confidence |-> 90] }

\* an image of the PDF: its page, and what recognising it gives
Images ==
  [ page : {1, 2}, raises : {FALSE},
    results : UNION {[1..n -> Fragments] : n \in 0..2} ]
  \cup [ page : {1, 2}, raises : {TRUE}, results : {<<>>} ]

ImageLists == UNION {[1..n -> Images] : n \in 0..MaxImages}

\* the text of the document before the enhancement: "", "ab", "ab\n"
OriginalTexts == { <<>>, << 97, 98 >>, << 97, 98, 10 >> }

InitEnhance ==
  /\ Fresh
  /\ NoOcr
  /\ NoGui
  /\ dpc = "off" /\ d_in = <<>> /\ d_once = <<>> /\ d_twice = <<>>
  /\ fpc = "enhance_pdf_text"
  /\ arg \in [reader : {"None", "ready"}, images : ImageLists, text : OriginalTexts]
  /\ ret = <<>>

EnhancePdfText ==
  /\ fpc = "enhance_pdf_text"
  /\ Returns(enhance_pdf_text(arg.reader, arg.images, arg.text), "enhance_pdf_text_done")

NextEnhance ==
  \/ EnhancePdfText

SpecEnhance == InitEnhance /\ [][NextEnhance]_vars

(***************************************************************************)
(* A UniversalParser with OCR support: its construction, toggle_ocr and    *)
(* get_ocr_status, and what parse_pdf_file and parse_document do with the  *)
(* text of a PDF before the strategies parse it.                           *)
(***************************************************************************)
\* what initialising the OCR engine can do: it works, easyocr.Reader raises,
\* or importing enhanced_extractor (and with it easyocr) raises
EngineOutcomes == {"ready", "reader_fails", "import_fails"}

\* OCRProcessor.__init__ and _initialize_ocr: a failing Reader is caught and
\* leaves reader = None
OCRProcessor(outcome) ==
  [ reader |-> IF outcome = "ready" THEN "ready" ELSE "None" ]

\* EnhancedExtractor(use_ocr=True): OCRProcessor(...) does not raise, so
\* use_ocr stays True
EnhancedExtractor(outcome) ==
  [ none |-> FALSE, use_ocr |-> TRUE, ocr_processor |-> OCRProcessor(outcome) ]

\* self.use_ocr and self.enhanced_extractor
OcrAvailable == use_ocr /\ ~enhanced_extractor.none

\* the texts of the PDFs: a text that passes the text tests of the quality
\* check and one that fails them
OcrTexts ==
  { QualityText({1, 2}, 100, "plain"), QualityText({}, 40, "plain") }

\* the tables of the PDFs: none, a valid one, a degenerate one
OcrTables ==
  { <<>>, << [rows |-> 3, columns |-> 4] >>, << [rows |-> 1, columns |-> 2] >> }

\* the images of the PDFs: one with a recognisable letter, one recognised
\* below the confidence threshold, one on which readtext raises
OcrImages ==
  { [page |-> 1, raises |-> FALSE,
     results |-> << [text |-> << 120 >>, confidence |-> 90] >>],
    [page |-> 2, raises |-> FALSE,
     results |-> << [text |-> << 120 >>, confidence |-> 50] >>],
    [page |-> 2, raises |-> TRUE, results |-> <<>>] }

OcrImageLists == UNION {[1..n -> OcrImages] : n \in 0..MaxImages}

\* the PDFs of the model
Pdfs == [text : OcrTexts, tables : OcrTables, images : OcrImageLists]

\* needs_ocr of _check_text_quality for the text and tables of a PDF
NeedsOcr(d) == QualityOf(d.text, d.tables, text_issues[d.text]).needs_ocr

\* OCRProcessor.enhance_pdf_text of the parser's processor, on a PDF
EnhanceWithProcessor(d, original_text) ==
  enhance_pdf_text(enhanced_extractor.ocr_processor.reader, d.images, original_text)

InitOcr ==
  /\ Fresh
  /\ NoGui
  /\ dpc = "off" /\ d_in = <<>> /\ d_once = <<>> /\ d_twice = <<>>
  /\ NoCall
  /\ engine = "None"
  /\ opc = "new"
  /\ use_ocr = FALSE
  /\ enhanced_extractor = NoExtractor
  /\ status = "None"
  /\ toggled = NoToggle
  /\ NoRun

\* UniversalParser.__init__(use_ocr=...)
Construct ==
  /\ opc = "new"
  /\ \E requested \in BOOLEAN, outcome \in EngineOutcomes :
        IF requested
          THEN /\ engine' = outcome
               /\ IF outcome = "import_fails"
                    THEN use_ocr' = FALSE /\ enhanced_extractor' = NoExtractor
                    ELSE use_ocr' = TRUE
                         /\ enhanced_extractor' = EnhancedExtractor(outcome)
          ELSE /\ use_ocr' = FALSE
               /\ UNCHANGED << engine, enhanced_extractor >>
  /\ opc' = "idle"
  /\ UNCHANGED << pipeline, dedup, frame, gui, status, toggled, ocr_run >>

\* what toggle_ocr leaves and returns
Toggled(enabled, extractor, result) ==
  [ use_ocr |-> enabled, enhanced_extractor |-> extractor, returned |-> result ]

\* a toggle_ocr that keeps the extractor when OCR is switched off
toggle_ocr_keeping_extractor(enable, outcome) ==
  IF enable /\ ~use_ocr
    THEN IF outcome = "import_fails"
           THEN Toggled(use_ocr, enhanced_extractor, "False")
           ELSE Toggled(TRUE, EnhancedExtractor(outcome), "True")
  ELSE IF ~enable /\ use_ocr
    THEN Toggled(FALSE, enhanced_extractor, "True")
  ELSE Toggled(use_ocr, enhanced_extractor, "True")

\* UniversalParser.toggle_ocr(enable), when building the extractor goes as
\* `outcome` says
toggle_ocr(enable, outcome) ==
  IF enable /\ ~use_ocr
    THEN IF outcome = "import_fails"
           THEN Toggled(use_ocr, enhanced_extractor, "False")
           ELSE Toggled(TRUE, EnhancedExtractor(outcome), "True")
  ELSE IF ~enable /\ use_ocr
    THEN Toggled(FALSE, NoExtractor, "True")
  ELSE Toggled(use_ocr, enhanced_extractor, "True")

\* a call of toggle_ocr
ToggleOcr ==
  /\ opc = "idle"
  /\ \E enable \in BOOLEAN, outcome \in EngineOutcomes :
        LET after == toggle_ocr(enable, outcome)
        IN  /\ use_ocr' = after.use_ocr
            /\ enhanced_extractor' = after.enhanced_extractor
            /\ toggled' = [enable |-> enable, returned |-> after.returned]
            /\ engine' = IF enable /\ ~use_ocr THEN outcome ELSE engine
  /\ UNCHANGED << pipeline, dedup, frame, gui, opc, status, ocr_run >>

\* UniversalParser.get_ocr_status()
GetOcrStatus ==
  /\ opc = "idle"
  /\ status' = IF OcrAvailable THEN "active" ELSE "disabled"
  /\ UNCHANGED << pipeline, dedup, frame, gui, engine, opc, use_ocr,
                  enhanced_extractor, toggled, ocr_run >>

\* parse_pdf_file(pdf_path, enable_ocr) is called
CallParsePdfFile ==
  /\ opc = "idle"
  /\ parsed < MaxDocs
  /\ \E d \in Pdfs, e \in BOOLEAN :
        /\ doc' = d
        /\ enable_ocr' = IF e THEN "True" ELSE "False"
  /\ entry' = "parse_pdf_file"
  /\ pdf_path' = "a.pdf"
  /\ doc_text' = <<>>
  /\ quality_check' = "None"
  /\ enhance_calls' = 0
  /\ ocr_info' = <<>>
  /\ returned' = "None"
  /\ opc' = "extract"
  /\ UNCHANGED << pipeline, dedup, frame, gui, engine, use_ocr, enhanced_extractor,
                  status, toggled, parsed >>

\* the extraction of parse_pdf_file: EnhancedExtractor.extract_text_and_tables
\* when OCR is available and enabled, else the standard extractor
ExtractTextAndTables ==
  /\ opc = "extract"
  /\ IF OcrAvailable /\ enable_ocr = "True" /\ enhanced_extractor.use_ocr
       THEN /\ quality_check' = IF NeedsOcr(doc) THEN "True" ELSE "False"
            /\ IF NeedsOcr(doc)
                 THEN LET enhanced == EnhanceWithProcessor(doc, doc.text)
                      IN  /\ enhance_calls' = enhance_calls + 1
                          /\ doc_text' = IF enhanced.info.ocr_additions > 0
                                           THEN enhanced.text ELSE doc.text
                 ELSE /\ doc_text' = doc.text
                      /\ UNCHANGED enhance_calls
       ELSE /\ doc_text' = doc.text
            /\ UNCHANGED << quality_check, enhance_calls >>
  /\ opc' = "parse_document"
  /\ UNCHANGED << pipeline, dedup, frame, gui, ocr_object_but_opc, entry, doc,
                  pdf_path, enable_ocr, ocr_info, returned, parsed >>

\* parse_document(text, tables, pdf_path) is called by the application
CallParseDocument ==
  /\ opc = "idle"
  /\ parsed < MaxDocs
  /\ \E d \in Pdfs, p \in {"None", "a.pdf"} :
        /\ doc' = d
        /\ doc_text' = d.text
        /\ pdf_path' = p
  /\ entry' = "parse_document"
  /\ enable_ocr' = "None"
  /\ quality_check' = "None"
  /\ enhance_calls' = 0
  /\ ocr_info' = <<>>
  /\ returned' = "None"
  /\ opc' = "parse_document"
  /\ UNCHANGED << pipeline, dedup, frame, gui, engine, use_ocr, enhanced_extractor,
                  status, toggled, parsed >>

\* what parse_document(d.text, d.tables, path) gives on a parser object that
\* has parsed nothing before and whose OCR setting is (ocr_in_use, extractor)
parse_document_alone(d, path, ocr_in_use, extractor) ==
  IF ocr_in_use /\ ~extractor.none /\ path # "None"
    THEN LET enhanced == enhance_pdf_text(extractor.ocr_processor.reader,
                                          d.images, d.text)
         IN  IF enhanced.info.ocr_additions > 0
               THEN [ text |-> enhanced.text, ocr_info |-> << enhanced.info >>,
                      enhance_calls |-> 1 ]
               ELSE [ text |-> d.text, ocr_info |-> <<>>, enhance_calls |-> 1 ]
    ELSE [ text |-> d.text, ocr_info |-> <<>>, enhance_calls |-> 0 ]

\* a parse_document that switches OCR off for the documents to come once
\* the engine has found nothing in a document
ParseDocumentRemembering ==
  /\ opc = "parse_document"
  /\ IF OcrAvailable /\ pdf_path # "None"
       THEN LET enhanced == EnhanceWithProcessor(doc, doc_text)
            IN  /\ enhance_calls' = enhance_calls + 1
                /\ IF enhanced.info.ocr_additions > 0
                     THEN /\ doc_text' = enhanced.text
                          /\ ocr_info' = << enhanced.info >>
                          /\ UNCHANGED use_ocr
                     ELSE /\ use_ocr' = FALSE
                          /\ UNCHANGED << doc_text, ocr_info >>
       ELSE UNCHANGED << doc_text, ocr_info, enhance_calls, use_ocr >>
  /\ IF entry = "parse_pdf_file"
       THEN opc' = "file_info" /\ UNCHANGED returned
       ELSE opc' = "returned" /\ returned' = "results"
  /\ UNCHANGED << pipeline, dedup, frame, gui, engine, enhanced_extractor, status,
                  toggled, entry, doc, pdf_path, enable_ocr, quality_check,
                  parsed >>

\* the OCR block of parse_document; the strategies then parse doc_text.
\* parse_document returns to its caller: the application or parse_pdf_file
ParseDocument ==
  /\ opc = "parse_document"
  /\ IF OcrAvailable /\ pdf_path # "None"
       THEN LET enhanced == EnhanceWithProcessor(doc, doc_text)
            IN  /\ enhance_calls' = enhance_calls + 1
                /\ IF enhanced.info.ocr_additions > 0
                     THEN doc_text' = enhanced.text /\ ocr_info' = << enhanced.info >>
                     ELSE UNCHANGED << doc_text, ocr_info >>
       ELSE UNCHANGED << doc_text, ocr_info, enhance_calls >>
  /\ IF entry = "parse_pdf_file"
       THEN opc' = "file_info" /\ UNCHANGED returned
       ELSE opc' = "returned" /\ returned' = "results"
  /\ UNCHANGED << pipeline, dedup, frame, gui, ocr_object_but_opc, entry, doc,
                  pdf_path, enable_ocr, quality_check, parsed >>

\* the rest of parse_pdf_file: results.get('ocr_info', {}).get(...) raises
\* on the None that parse_document leaves under 'ocr_info', and the handler
\* returns the error dict
FileInfo ==
  /\ opc = "file_info"
  /\ returned' = IF ocr_info = <<>> THEN "error" ELSE "results"
  /\ opc' = "returned"
  /\ UNCHANGED << pipeline, dedup, frame, gui, ocr_object_but_opc, entry, doc,
                  pdf_path, enable_ocr, doc_text, quality_check, enhance_calls,
                  ocr_info, parsed >>

\* the caller has the result; the parser keeps nothing of the run
ReturnToCaller ==
  /\ opc = "returned"
  /\ opc' = "idle"
  /\ entry' = "None"
  /\ doc' = NoPdf
  /\ pdf_path' = "None"
  /\ enable_ocr' = "None"
  /\ doc_text' = <<>>
  /\ quality_check' = "None"
  /\ enhance_calls' = 0
  /\ ocr_info' = <<>>
  /\ returned' = "None"
  /\ parsed' = parsed + 1
  /\ UNCHANGED << pipeline, dedup, frame, gui, ocr_object_but_opc >>

NextOcr ==
  \/ Construct
  \/ ToggleOcr
  \/ GetOcrStatus
  \/ CallParsePdfFile
  \/ ExtractTextAndTables
  \/ CallParseDocument
  \/ ParseDocument
  \/ FileInfo
  \/ ReturnToCaller

SpecOcr == InitOcr /\ [][NextOcr]_vars

(***************************************************************************)
(* The two document-type detectors: key words and indicators.              *)
(***************************************************************************)
\* invoice_keywords of OCRProcessor.detect_document_type:
\* счет, счет-фактура, invoice, bill, оплата, платеж, ндс, итого, сумма, к оплате, банковские реквизиты
invoice_keywords ==
  { <<1089, 1095, 1077, 1090>>,
    <<1089, 1095, 1077, 1090, 45, 1092, 1072, 1082, 1090, 1091, 1088, 1072>>,
    <<105, 110, 118, 111, 105, 99, 101>>,
    <<98, 105, 108, 108>>,
    <<1086, 1087, 1083, 1072, 1090, 1072>>,
    <<1087, 1083, 1072, 1090, 1077, 1078>>,
    <<1085, 1076, 1089>>,
    <<1080, 1090, 1086, 1075, 1086>>,
    <<1089, 1091, 1084, 1084, 1072>>,
    <<1082, 32, 1086, 1087, 1083, 1072, 1090, 1077>>,
    <<1073, 1072, 1085, 1082, 1086, 1074, 1089, 1082, 1080, 1077, 32, 1088, 1077, 1082, 1074, 1080, 1079, 1080, 1090, 1099>> }

\* commercial_keywords of OCRProcessor.detect_document_type:
\* коммерческое предложение, commercial proposal, предложение, условия поставки, сроки поставки, гарантия, спецификация
commercial_keywords ==
  { <<1082, 1086, 1084, 1084, 1077, 1088, 1095, 1077, 1089, 1082, 1086, 1077, 32, 1087, 1088, 1077, 1076, 1083, 1086, 1078, 1077, 1085, 1080, 1077>>,
    <<99, 111, 109, 109, 101, 114, 99, 105, 97, 108, 32, 112, 114, 111, 112, 111, 115, 97, 108>>,
    <<1087, 1088, 1077, 1076, 1083, 1086, 1078, 1077, 1085, 1080, 1077>>,
    <<1091, 1089, 1083, 1086, 1074, 1080, 1103, 32, 1087, 1086, 1089, 1090, 1072, 1074, 1082, 1080>>,
    <<1089, 1088, 1086, 1082, 1080, 32, 1087, 1086, 1089, 1090, 1072, 1074, 1082, 1080>>,
    <<1075, 1072, 1088, 1072, 1085, 1090, 1080, 1103>>,
    <<1089, 1087, 1077, 1094, 1080, 1092, 1080, 1082, 1072, 1094, 1080, 1103>> }

\* competitive_keywords of OCRProcessor.detect_document_type:
\* конкурс, тендер, аукцион, заявка, предложение, техническое задание, тз, спецификация
competitive_keywords ==
  { <<1082, 1086, 1085, 1082, 1091, 1088, 1089>>,
    <<1090, 1077, 1085, 1076, 1077, 1088>>,
    <<1072, 1091, 1082, 1094, 1080, 1086, 1085>>,
    <<1079, 1072, 1103, 1074, 1082, 1072>>,
    <<1087, 1088, 1077, 1076, 1083, 1086, 1078, 1077, 1085, 1080, 1077>>,
    <<1090, 1077, 1093, 1085, 1080, 1095, 1077, 1089, 1082, 1086, 1077, 32, 1079, 1072, 1076, 1072, 1085, 1080, 1077>>,
    <<1090, 1079>>,
    <<1089, 1087, 1077, 1094, 1080, 1092, 1080, 1082, 1072, 1094, 1080, 1103>> }

\* contract_keywords of OCRProcessor.detect_document_type:
\* договор, контракт, соглашение, contract, agreement, стороны, обязательства, ответственность, форс-мажор
contract_keywords ==
  { <<1076, 1086, 1075, 1086, 1074, 1086, 1088>>,
    <<1082, 1086, 1085, 1090, 1088, 1072, 1082, 1090>>,
    <<1089, 1086, 1075, 1083, 1072, 1096, 1077, 1085, 1080, 1077>>,
    <<99, 111, 110, 116, 114, 97, 99, 116>>,
    <<97, 103, 114, 101, 101, 109, 101, 110, 116>>,
    <<1089, 1090, 1086, 1088, 1086, 1085, 1099>>,
    <<1086, 1073, 1103, 1079, 1072, 1090, 1077, 1083, 1100, 1089, 1090, 1074, 1072>>,
    <<1086, 1090, 1074, 1077, 1090, 1089, 1090, 1074, 1077, 1085, 1085, 1086, 1089, 1090, 1100>>,
    <<1092, 1086, 1088, 1089, 45, 1084, 1072, 1078, 1086, 1088>> }

\* commercial_indicators of UniversalParser._detect_document_type:
\* коммерческое предложение, предложение, поставщик, товар
commercial_indicators ==
  { <<1082, 1086, 1084, 1084, 1077, 1088, 1095, 1077, 1089, 1082, 1086, 1077, 32, 1087, 1088, 1077, 1076, 1083, 1086, 1078, 1077, 1085, 1080, 1077>>,
    <<1087, 1088, 1077, 1076, 1083, 1086, 1078, 1077, 1085, 1080, 1077>>,
    <<1087, 1086, 1089, 1090, 1072, 1074, 1097, 1080, 1082>>,
    <<1090, 1086, 1074, 1072, 1088>> }

\* invoice_indicators of UniversalParser._detect_document_type:
\* счет на оплату, счет №, оплата, плательщик, получатель
invoice_indicators ==
  { <<1089, 1095, 1077, 1090, 32, 1085, 1072, 32, 1086, 1087, 1083, 1072, 1090, 1091>>,
    <<1089, 1095, 1077, 1090, 32, 8470>>,
    <<1086, 1087, 1083, 1072, 1090, 1072>>,
    <<1087, 1083, 1072, 1090, 1077, 1083, 1100, 1097, 1080, 1082>>,
    <<1087, 1086, 1083, 1091, 1095, 1072, 1090, 1077, 1083, 1100>> }

\* competitive_indicators of UniversalParser._detect_document_type:
\* конкурентная процедура, тендер, аукцион, заявка
competitive_indicators ==
  { <<1082, 1086, 1085, 1082, 1091, 1088, 1077, 1085, 1090, 1085, 1072, 1103, 32, 1087, 1088, 1086, 1094, 1077, 1076, 1091, 1088, 1072>>,
    <<1090, 1077, 1085, 1076, 1077, 1088>>,
    <<1072, 1091, 1082, 1094, 1080, 1086, 1085>>,
    <<1079, 1072, 1103, 1074, 1082, 1072>> }

\* the phrases the texts of the documents are made of:
\* Счет-фактура, Коммерческое предложение, тендер, Договор, оплата, кабель, спецификация
DocTypePhrases ==
  << <<1057, 1095, 1077, 1090, 45, 1092, 1072, 1082, 1090, 1091, 1088, 1072>>,
     <<1050, 1086, 1084, 1084, 1077, 1088, 1095, 1077, 1089, 1082, 1086, 1077, 32, 1087, 1088, 1077, 1076, 1083, 1086, 1078, 1077, 1085, 1080, 1077>>,
     <<1090, 1077, 1085, 1076, 1077, 1088>>,
     <<1044, 1086, 1075, 1086, 1074, 1086, 1088>>,
     <<1086, 1087, 1083, 1072, 1090, 1072>>,
     <<1082, 1072, 1073, 1077, 1083, 1100>>,
     <<1089, 1087, 1077, 1094, 1080, 1092, 1080, 1082, 1072, 1094, 1080, 1103>> >>

(***************************************************************************)
(* The document type of a result.  OCRProcessor.detect_document_type       *)
(* scores a text for four categories; UniversalParser._detect_document_type*)
(* labels it.  A score is a fraction: the key words of the category found  *)
(* in the text over the key words found for all four categories.           *)
(***************************************************************************)
\* the number of words of a list that occur in the lower-cased text
KeywordCount(text_lower, words) ==
  Cardinality({w \in words : Contains(text_lower, w)})

\* a value of results['document_type']: None, the dict of scores of the
\* classifier, or the label of _detect_document_type
NoDocumentType ==
  [ kind |-> "None", label |-> "None",
    scores |-> [c \in {"invoice", "commercial_proposal", "competitive_document",
                       "contract"} |-> << 0, 1 >>] ]

ScoresOf(document_types) ==
  [kind |-> "scores", label |-> "None", scores |-> document_types]

LabelOf(label) == [NoDocumentType EXCEPT !.kind = "label", !.label = label]

\* OCRProcessor.detect_document_type: the counts, divided by their sum when
\* the sum is positive (0.0 is written 0/1)
detect_document_type(text) ==
  LET text_lower == Lower(text)
      counts == [ invoice |-> KeywordCount(text_lower, invoice_keywords),
                  commercial_proposal |-> KeywordCount(text_lower, commercial_keywords),
                  competitive_document |-> KeywordCount(text_lower, competitive_keywords),
                  contract |-> KeywordCount(text_lower, contract_keywords) ]
      total_keywords == counts.invoice + counts.commercial_proposal
                          + counts.competitive_document + counts.contract
  IN  [c \in DOMAIN counts |->
         IF total_keywords > 0 THEN << counts[c], total_keywords >>
         ELSE << 0, 1 >>]

\* UniversalParser._detect_document_type
_detect_document_type(text) ==
  LET text_lower == Lower(text)
  IN  IF \E w \in commercial_indicators : Contains(text_lower, w)
        THEN "commercial_proposal"
      ELSE IF \E w \in invoice_indicators : Contains(text_lower, w)
        THEN "invoice"
      ELSE IF \E w \in competitive_indicators : Contains(text_lower, w)
        THEN "competitive_procedure"
      ELSE "unknown"

(***************************************************************************)
(* The specification of the document type: parse_document on a text, with  *)
(* or without OCR support and a pdf_path; the strategies are left out.     *)
(***************************************************************************)
RECURSIVE PhrasesOf(_, _)
\* the phrases with index in `chosen`, from index k on, one per line
PhrasesOf(chosen, k) ==
  IF k > Len(DocTypePhrases) THEN <<>>
  ELSE (IF k \in chosen THEN DocTypePhrases[k] \o << 10 >> ELSE <<>>)
       \o PhrasesOf(chosen, k + 1)

\* the texts: at most MaxPhrases of the phrases
DocTypeTexts ==
  { PhrasesOf(chosen, 1) :
      chosen \in {S \in SUBSET (1..Len(DocTypePhrases)) : Cardinality(S) <= MaxPhrases} }

InitDocType ==
  /\ Fresh
  /\ NoOcr
  /\ NoGui
  /\ dpc = "off" /\ d_in = <<>> /\ d_once = <<>> /\ d_twice = <<>>
  /\ fpc = "document_type"
  /\ arg \in [text : DocTypeTexts, ocr : BOOLEAN]
  /\ ret = NoDocumentType

\* the OCR block of parse_document: with OCR support and a pdf_path,
\* results['document_type'] = ocr_processor.detect_document_type(text)
ClassifyWithOcr ==
  /\ fpc = "document_type"
  /\ Returns(IF arg.ocr THEN ScoresOf(detect_document_type(arg.text)) ELSE ret,
             "document_type_strategies")

\* the end of parse_document:
\* results['document_type'] = self._detect_document_type(text, tables)
DetectDocumentType ==
  /\ fpc = "document_type_strategies"
  /\ Returns(LabelOf(_detect_document_type(arg.text)), "document_type_done")

NextDocType ==
  \/ ClassifyWithOcr
  \/ DetectDocumentType

SpecDocType == InitDocType /\ [][NextDocType]_vars

(***************************************************************************)
(* The structured text of the competitive strategy: the text is split into *)
(* blocks at empty lines and _parse_structured_text gives every block to   *)
(* _parse_structured_block.  Nothing between that call and the try of      *)
(* parse_document around the whole strategy catches an exception.          *)
(***************************************************************************)
\* the blocks a text is made of
BlockPool ==
  { b \in Blocks : /\ b.qty \in {1, NoneNum}
                   /\ b.price \in {2, NoneNum, Absent}
                   /\ b.total \in {3, Absent} }

BlockTexts == UNION { [1..n -> BlockPool] : n \in 1..MaxBlocks }

\* the loop of _parse_structured_text has handled the first `at` blocks
StructuredRun(at, raised, items) ==
  [ at |-> at, raised |-> raised, items |-> items ]

InitStructured ==
  /\ Fresh
  /\ NoOcr
  /\ NoGui
  /\ dpc = "off" /\ d_in = <<>> /\ d_once = <<>> /\ d_twice = <<>>
  /\ fpc = "structured_text"
  /\ arg \in BlockTexts
  /\ ret = StructuredRun(0, FALSE, <<>>)

\* one turn of the loop over the blocks: the item of the block is appended;
\* an exception of _parse_structured_block leaves _parse_structured_text,
\* _parse_competitive_text and parse_competitive_document, and the strategy
\* ends with nothing but the error
ParseBlockOfText ==
  /\ fpc = "structured_text"
  /\ ret.at < Len(arg)
  /\ LET parsed_block == _parse_structured_block(arg[ret.at + 1])
     IN  IF parsed_block.raised
           THEN Returns(StructuredRun(ret.at + 1, TRUE, <<>>), "strategy_raised")
         ELSE IF parsed_block.item
           THEN Returns(StructuredRun(ret.at + 1, FALSE,
                                      Append(ret.items, parsed_block)),
                        "structured_text")
         ELSE Returns(StructuredRun(ret.at + 1, FALSE, ret.items),
                      "structured_text")

\* the loop is over: the strategy returns the items
StructuredTextDone ==
  /\ fpc = "structured_text"
  /\ ret.at = Len(arg)
  /\ Returns(ret, "strategy_returned")

NextStructured ==
  \/ ParseBlockOfText
  \/ StructuredTextDone

SpecStructured == InitStructured /\ [][NextStructured]_vars

(***************************************************************************)
(* The confidence of the items of a strategy.  A document is a sequence of *)
(* units: rows of a table whose columns were mapped, rows of a table read  *)
(* by content, and text lines that an item pattern matches.  qty = 0 makes *)
(* the validation of the strategy reject the item.                         *)
(***************************************************************************)
Strategies == {"commercial", "invoice", "competitive", "universal"}

Methods == {"mapping", "content", "regex"}

\* the confidence in the item dict built by _parse_table_with_mapping,
\* _parse_table_row_values (content analysis in the universal strategy) and
\* the line parser, in hundredths
BuiltConfidence(parser, method) ==
  IF method = "mapping" THEN (IF parser = "universal" THEN 90 ELSE 95)
  ELSE IF method = "content" THEN (IF parser = "universal" THEN 60 ELSE 80)
  ELSE (IF parser = "universal" THEN 80 ELSE 85)

\* parsed_item['confidence'] = 0.7 in the text loop of every strategy
LineConfidence == 70

\* the confidence of a line item once the text loop has stored it
StoredConfidence(built) == LineConfidence

NoPending == [none |-> TRUE, method |-> "regex", confidence |-> 0]

Extracted(method, confidence) ==
  [none |-> FALSE, method |-> method, confidence |-> confidence]

ConfidenceUnits == [method : Methods, qty : 0..1]

ConfidenceDocs ==
  [parser : Strategies,
   units : UNION { [1..n -> ConfidenceUnits] : n \in 1..MaxUnits }]

ConfidenceRun(at, pending, items) ==
  [ at |-> at, pending |-> pending, items |-> items ]

InitConfidence ==
  /\ Fresh
  /\ NoOcr
  /\ NoGui
  /\ dpc = "off" /\ d_in = <<>> /\ d_once = <<>> /\ d_twice = <<>>
  /\ fpc = "units"
  /\ arg \in ConfidenceDocs
  /\ ret = ConfidenceRun(0, NoPending, <<>>)

\* a row of a table with a column mapping, or of a table read by content
ParseRowOfTable ==
  /\ fpc = "units"
  /\ ret.at < Len(arg.units)
  /\ LET unit == arg.units[ret.at + 1]
     IN  /\ unit.method \in {"mapping", "content"}
         /\ Returns(ConfidenceRun(ret.at + 1, NoPending,
                      IF unit.qty > 0
                        THEN Append(ret.items,
                               Extracted(unit.method,
                                 BuiltConfidence(arg.parser, unit.method)))
                        ELSE ret.items),
                    "units")

\* the line parser: the first pattern that matches builds the item
MatchLine ==
  /\ fpc = "units"
  /\ ret.at < Len(arg.units)
  /\ LET unit == arg.units[ret.at + 1]
     IN  /\ unit.method = "regex"
         /\ IF unit.qty > 0
              THEN Returns(ConfidenceRun(ret.at, Extracted("regex",
                             BuiltConfidence(arg.parser, "regex")), ret.items),
                           "line_parsed")
              ELSE Returns(ConfidenceRun(ret.at + 1, NoPending, ret.items),
                           "units")

\* the text loop sets source and confidence of the item and appends it
StoreLineItem ==
  /\ fpc = "line_parsed"
  /\ Returns(ConfidenceRun(ret.at + 1, NoPending,
               Append(ret.items,
                      Extracted("regex", StoredConfidence(ret.pending.confidence)))),
             "units")

\* the strategy returns its items
ConfidenceDone ==
  /\ fpc = "units"
  /\ ret.at = Len(arg.units)
  /\ Returns(ret, "units_done")

NextConfidence ==
  \/ ParseRowOfTable
  \/ MatchLine
  \/ StoreLineItem
  \/ ConfidenceDone

SpecConfidence == InitConfidence /\ [][NextConfidence]_vars

(***************************************************************************)
(* The line parser of a strategy: the loop of _parse_competitive_line over *)
(* item_patterns.  What the regular expressions do with the line is the    *)
(* input: for every pattern, whether it matches and the numbers in its     *)
(* groups qty and price.                                                   *)
(***************************************************************************)
\* len(self.item_patterns) of the competitive strategy
PatternCount == 4

\* pattern.search(line) is None
NoMatch == [matched |-> FALSE, qty |-> NoneNum, price |-> NoneNum]

Match(qty, price) == [matched |-> TRUE, qty |-> qty, price |-> price]

PatternMatches ==
  {NoMatch} \cup { Match(qty, price) : qty \in {NoneNum} \cup (0..MaxQty),
                                       price \in 1..MaxQty }

LineMatches == [1..PatternCount -> PatternMatches]

\* no item yet: the loop has tried the first `at` patterns
NoLineItem(at) ==
  [ at |-> at, found |-> FALSE, by |-> 0, qty |-> 0, price |-> 0, total |-> 0 ]

\* the item built from the groups of pattern `by`; the total is the one
\* computed for a pattern without a total group
LineItem(by, qty, price) ==
  [ at |-> by, found |-> TRUE, by |-> by, qty |-> qty, price |-> price,
    total |-> qty * price ]

\* the body of the loop for a pattern that matches: the item when
\* _validate_competitive_item accepts it
ItemOfMatch(by, m) ==
  IF m.qty # NoneNum /\ m.price # NoneNum /\ m.qty > 0 /\ m.price > 0
    THEN LineItem(by, m.qty, m.price)
    ELSE NoLineItem(by)

InitLine ==
  /\ Fresh
  /\ NoOcr
  /\ NoGui
  /\ dpc = "off" /\ d_in = <<>> /\ d_once = <<>> /\ d_twice = <<>>
  /\ fpc = "patterns"
  /\ arg \in LineMatches
  /\ ret = NoLineItem(0)

\* one turn of `for pattern in self.item_patterns`: a pattern that does not
\* match, or whose item is not valid, leaves the line to the next pattern
TryPattern ==
  /\ fpc = "patterns"
  /\ ret.at < PatternCount
  /\ LET m == arg[ret.at + 1]
         item == ItemOfMatch(ret.at + 1, m)
     IN  IF m.matched /\ item.found
           THEN Returns(item, "line_returned")
           ELSE Returns(NoLineItem(ret.at + 1), "patterns")

\* no pattern gave an item: return None
NoPatternLeft ==
  /\ fpc = "patterns"
  /\ ret.at = PatternCount
  /\ Returns(ret, "line_returned")

NextLine ==
  \/ TryPattern
  \/ NoPatternLeft

SpecLine == InitLine /\ [][NextLine]_vars

(***************************************************************************)
(* The main window and its ProcessingThreads.  The slots of the window run *)
(* in the main thread, one at a time; a signal that a ProcessingThread     *)
(* emits is queued for the main thread, and the queue is served in order.  *)
(* Files are selected in the order of Files, each once.                    *)
(***************************************************************************)
\* result['items'] of the thread that processed file f
ItemsOf(f) == << f >>

\* a signal emitted by the thread of file f, queued for its slot
Queued(signal, f) == [signal |-> signal, file |-> f]

InitGui ==
  /\ Fresh
  /\ NoOcr
  /\ dpc = "off" /\ d_in = <<>> /\ d_once = <<>> /\ d_twice = <<>>
  /\ NoCall
  /\ NoGui

\* on_file_selected: process_pdf_file sets current_document, and
\* process_file_with_ocr puts a new thread in processing_thread and starts it
SelectFile ==
  /\ app = "running"
  /\ \E f \in Files :
        /\ threads[f] = "none"
        /\ f > 1 => threads[f - 1] # "none"
        /\ current_document' = f
        /\ processing_thread' = f
        /\ threads' = [threads EXCEPT ![f] = "running"]
  /\ UNCHANGED << pipeline, dedup, frame, ocr, current_items, events, app >>

\* ProcessingThread.run ends with self.finished.emit(result)
ThreadFinishes ==
  /\ app = "running"
  /\ \E f \in Files :
        /\ threads[f] = "running"
        /\ threads' = [threads EXCEPT ![f] = "finished"]
        /\ events' = Append(events, Queued("finished", f))
  /\ UNCHANGED << pipeline, dedup, frame, ocr, current_document, current_items,
                  processing_thread, app >>

\* ProcessingThread.run ends with self.error.emit(...)
ThreadFails ==
  /\ app = "running"
  /\ \E f \in Files :
        /\ threads[f] = "running"
        /\ threads' = [threads EXCEPT ![f] = "error"]
        /\ events' = Append(events, Queued("error", f))
  /\ UNCHANGED << pipeline, dedup, frame, ocr, current_document, current_items,
                  processing_thread, app >>

\* the window no longer refers to a thread that is still running: the
\* QThread may be destroyed while it runs, which ends the process
ThreadDestroyed ==
  /\ app = "running"
  /\ \E f \in Files : threads[f] = "running" /\ processing_thread # f
  /\ app' = "aborted"
  /\ UNCHANGED << pipeline, dedup, frame, ocr, current_document, current_items,
                  processing_thread, threads, events >>

\* the main thread runs on_processing_finished(result)
DeliverFinished ==
  /\ app = "running"
  /\ events # <<>>
  /\ Head(events).signal = "finished"
  /\ current_document' = Head(events).file
  /\ current_items' = ItemsOf(Head(events).file)
  /\ events' = Tail(events)
  /\ UNCHANGED << pipeline, dedup, frame, ocr, processing_thread, threads, app >>

\* the main thread runs on_processing_error(error_msg)
DeliverError ==
  /\ app = "running"
  /\ events # <<>>
  /\ Head(events).signal = "error"
  /\ events' = Tail(events)
  /\ UNCHANGED << pipeline, dedup, frame, ocr, current_document, current_items,
                  processing_thread, threads, app >>

NextGui ==
  \/ SelectFile
  \/ ThreadFinishes
  \/ ThreadFails
  \/ ThreadDestroyed
  \/ DeliverFinished
  \/ DeliverError

SpecGui == InitGui /\ [][NextGui]_vars

(***************************************************************************)
(* Properties of parse_document.                                           *)
(***************************************************************************)
\* parse_document has run its arbitration loop
Arbitrated == pc \in {"finish", "done"}

\* the largest value of a non-empty finite set of integers
MaxOf(S) == CHOOSE m \in S : \A n \in S : n <= m

\* position of a strategy in the order of arbitration
PositionOf(parser) == CHOOSE i \in 1..Len(ParserOrder) : ParserOrder[i] = parser

\* the highest adjusted score of the call
TopScore == MaxOf({scores[p] : p \in Parsers})

\* C1: best_parser is the strategy with the highest adjusted score; among
\* strategies that share the highest score it is the first one in the order
\* commercial, invoice, competitive, universal, supplier_profile,
\* table_extractor, precise_table_parser; when every adjusted score is zero
\* best_parser is None and best_items is empty.
C1_BestIsFirstOfHighest ==
  Arbitrated =>
    IF TopScore = 0
      THEN best_parser = "None" /\ best_items = <<>>
      ELSE /\ best_parser \in Parsers
           /\ scores[best_parser] = TopScore
           /\ \A p \in Parsers :
                 scores[p] = TopScore => PositionOf(best_parser) <= PositionOf(p)

\* a call where two strategies share the highest score and the earlier one won
C1_Witness ==
  /\ pc = "done"
  /\ TopScore > 0
  /\ \E p \in Parsers :
        p # best_parser /\ scores[p] = TopScore /\ scores[best_parser] = TopScore

\* s is t with some elements left out, the others in the order of t
RECURSIVE IsSubsequence(_, _)
IsSubsequence(s, t) ==
  IF s = <<>> THEN TRUE
  ELSE IF t = <<>> THEN FALSE
  ELSE IF Head(s) = Head(t) THEN IsSubsequence(Tail(s), Tail(t))
  ELSE IsSubsequence(s, Tail(t))

\* C2: best_items is the secondary-filtered list of the one chosen strategy,
\* in that strategy's order; it holds no item of another strategy and is not
\* merged from several strategies.
C2_BestItemsOfOneStrategy ==
  Arbitrated /\ best_parser # "None" =>
    /\ best_items = valid_items[best_parser]
    /\ IsSubsequence(best_items, results[best_parser].items)
    /\ Range(best_items) \subseteq Range(results[best_parser].items)

\* a call where another strategy kept items that the chosen one did not return
C2_Witness ==
  /\ pc = "done"
  /\ best_parser # "None"
  /\ \E p \in Parsers :
        /\ valid_items[p] # <<>>
        /\ Range(valid_items[p]) \cap Range(results[best_parser].items) = {}

\* the items a strategy returns for the candidates `cands`
EntryPoint(parser, cands) ==
  CASE parser = "commercial" -> parse_commercial_proposal(cands)
    [] parser = "invoice" -> parse_invoice(cands)
    [] parser = "competitive" -> parse_competitive_document(cands)
    [] parser = "universal" -> _parse_universal(cands)
    [] parser = "table_extractor" -> table_extract_items_from_tables(cands)
    [] parser = "precise_table_parser" -> precise_extract_items_from_tables(cands)

\* the results a strategy can have for the document when it does not raise
ResultsWithoutRaise(parser) ==
  IF parser = "supplier_profile"
    THEN {ParserResult(<<>>)} \cup
         {ParserResult(profile_parse_document(s, Candidates(parser, rows))) : s \in Profiles}
    ELSE {ParserResult(EntryPoint(parser, c)) : c \in {<<>>, Candidates(parser, rows)}}

\* C3: a strategy that raises is recorded with an error marker, counts as
\* score zero and is never selected; parse_document goes on and returns; every
\* other strategy has the result it has when nothing raises.
C3_RaisingStrategyIsContained ==
  /\ pc # "raised"
  /\ pc \in {"arbitrate", "finish", "done"} =>
        \A p \in Parsers :
           /\ results[p].set
           /\ results[p].error => results[p] = ErrorResult
  /\ pc = "arbitrate" =>
        \A p \in Parsers :
           ~results[p].error => results[p] \in ResultsWithoutRaise(p)
  /\ Arbitrated =>
        \A p \in Parsers :
           results[p].error =>
              scores[p] = 0 /\ valid_items[p] = <<>> /\ best_parser # p

\* a call that returned although a strategy raised, with another one selected
C3_Witness ==
  /\ pc = "done"
  /\ \E p \in Parsers : results[p].error
  /\ best_parser # "None"

\* C4: when no strategy has a valid item, parse_document returns with an
\* empty best_items and the recommendations hold the message that no parser
\* found product rows.
C4_NothingFound ==
  pc = "done" /\ (\A p \in Parsers : valid_items[p] = <<>>) =>
     /\ best_items = <<>>
     /\ best_parser = "None"
     /\ "no_parser_found_items" \in Range(recommendations)

\* a call on a document with rows where no strategy kept an item
C4_Witness ==
  /\ pc = "done"
  /\ rows # <<>>
  /\ document_type = "invoice"
  /\ \A p \in Parsers : valid_items[p] = <<>>
  /\ "no_parser_found_items" \in Range(recommendations)

\* the strategies have all run, their results are what arbitration reads
ResultsComplete == pc \in {"arbitrate", "finish", "done"}

\* C5 as stated: for every one of the seven strategies, a secondary-filtered
\* count below 50% of the raw count forces the adjusted score to zero, so the
\* strategy cannot be selected.
C5_EveryStrategyBelowHalfIsZero ==
  Arbitrated =>
    \A p \in Parsers :
       Usable(results[p]) /\ 2 * Len(valid_items[p]) < results[p].count =>
          scores[p] = 0 /\ best_parser # p

\* C5, amended: the competitive strategy's adjusted score is forced to zero
\* when its secondary-filtered count is below 50% of its raw count, so it
\* cannot be selected then; no other strategy's score is lowered.
C5_CompetitiveBelowHalfIsZero ==
  Arbitrated =>
    /\ Usable(results["competitive"])
       /\ 2 * Len(valid_items["competitive"]) < results["competitive"].count =>
          scores["competitive"] = 0 /\ best_parser # "competitive"
    /\ \A p \in Parsers \ {"competitive"} : scores[p] >= Len(valid_items[p])

\* a call where the competitive strategy lost a non-zero count to the rule
\* while another strategy below 50% kept its score
C5_Witness ==
  /\ pc = "done"
  /\ Len(valid_items["competitive"]) > 0
  /\ 2 * Len(valid_items["competitive"]) < results["competitive"].count
  /\ scores["competitive"] = 0
  /\ \E p \in Parsers \ {"competitive"} :
        2 * Len(valid_items[p]) < results[p].count /\ scores[p] > 0

\* the strategies that arbitration looks at before the precise table parser
BeforePrecise == Parsers \ {"precise_table_parser"}

\* C6: the precise table parser's adjusted score is twice its
\* secondary-filtered item count; no other strategy's score is multiplied; the
\* precise table parser is selected over every earlier strategy whose adjusted
\* score is smaller than the doubled value.
C6_PreciseIsDoubled ==
  Arbitrated =>
    /\ scores["precise_table_parser"] = 2 * Len(valid_items["precise_table_parser"])
    /\ \A p \in BeforePrecise : scores[p] <= Len(valid_items[p])
    /\ (\A p \in BeforePrecise : scores[p] < 2 * Len(valid_items["precise_table_parser"]))
          => best_parser = "precise_table_parser"
    /\ best_parser = "precise_table_parser" =>
          \A p \in BeforePrecise : scores[p] < 2 * Len(valid_items["precise_table_parser"])

\* a call that the precise table parser won only because of the doubling
C6_Witness ==
  /\ pc = "done"
  /\ best_parser = "precise_table_parser"
  /\ \E p \in BeforePrecise : scores[p] >= Len(valid_items["precise_table_parser"])

\* the secondary filter as C7 states it, with the dimension-like patterns
C7_StatedFilter(name) ==
  LET lowered == Lower(name)
  IN  /\ ~ContainsAny(lowered, arbitration_service_words)
      /\ Len(Strip(lowered)) > 10
      /\ HasLetter(lowered)
      /\ \/ ContainsAny(lowered, arbitration_product_words)
         \/ HasDimension(lowered)
         \/ HasUnitSuffix(lowered)

\* the secondary filter with product keywords only
C7_KeywordFilter(name) ==
  LET lowered == Lower(name)
  IN  /\ ~ContainsAny(lowered, arbitration_service_words)
      /\ Len(Strip(lowered)) > 10
      /\ HasLetter(lowered)
      /\ ContainsAny(lowered, arbitration_product_words)

C7_StatedByName == [n \in Names |-> C7_StatedFilter(n)]

C7_KeywordByName == [n \in Names |-> C7_KeywordFilter(n)]

\* C7 as stated: an item passes the secondary filter iff its name has no word
\* of the extended service word list, is longer than 10 characters, has a
\* letter, and has a product keyword or a dimension-like numeric pattern.
C7_FilterWithDimensions ==
  Arbitrated =>
    \A p \in Parsers : \A i \in 1..Len(results[p].items) :
       (results[p].items[i] \in Range(valid_items[p]))
          <=> C7_StatedByName[results[p].items[i].name]

\* C7, amended: an item passes the secondary filter iff its name has no word
\* of the extended service word list, is longer than 10 characters, has a
\* letter, and has one of the product keywords; a dimension-like numeric
\* pattern does not make an item pass.
C7_FilterWithKeywords ==
  Arbitrated =>
    \A p \in Parsers : \A i \in 1..Len(results[p].items) :
       (results[p].items[i] \in Range(valid_items[p]))
          <=> C7_KeywordByName[results[p].items[i].name]

\* a call where the filter kept one item of a strategy and dropped another one
\* that has a dimension-like pattern and no product keyword
C7_Witness ==
  /\ pc = "done"
  /\ \E p \in Parsers : \E i, j \in 1..Len(results[p].items) :
        /\ results[p].items[i] \in Range(valid_items[p])
        /\ results[p].items[j] \notin Range(valid_items[p])
        /\ results[p].items[j].name = NamePipe

\* the key of deduplication: lower-cased trimmed name, qty, price
ClaimKey(item) == << Strip(Lower(item.name)), item.qty, item.price >>

\* C8 as stated: for each of the seven strategies the item list of its result
\* holds no two items with the same (lower-cased trimmed name, qty, price).
C8_EveryResultDeduplicated ==
  ResultsComplete =>
    \A p \in Parsers : \A i, j \in 1..Len(results[p].items) :
       i # j => ClaimKey(results[p].items[i]) # ClaimKey(results[p].items[j])

\* the validation rule as C9 states it
C9_Rule(item) ==
  /\ Len(Strip(item.name)) >= 5
  /\ HasTwoLetters(Lower(item.name))
  /\ ~ContainsAny(Lower(item.name), universal_service_words)
  /\ item.qty > 0
  /\ item.price > 0

\* C9 as stated: every item in every strategy's result has a name of at least
\* 5 characters with 2 consecutive letters and no service-exclusion word, and
\* a qty and a price greater than 0.
C9_EveryItemValid ==
  ResultsComplete =>
    \A p \in Parsers : \A i \in 1..Len(results[p].items) :
       C9_Rule(results[p].items[i])

(***************************************************************************)
(* Properties of _deduplicate_items.                                       *)
(***************************************************************************)
\* the items of a list that no earlier item of the list shares its key with
FirstOfEachKey(items) ==
  LET first == SelectSeq([i \in 1..Len(items) |-> i],
                         LAMBDA i : \A j \in 1..(i - 1) :
                                       ClaimKey(items[j]) # ClaimKey(items[i]))
  IN  [k \in 1..Len(first) |-> items[first[k]]]

\* C10: dedup(items) is the subsequence of items that keeps, for each key
\* (lower-cased trimmed name, qty, price), the first item with that key, in
\* input order; dedup(dedup(items)) equals dedup(items).
C10_DedupKeepsFirstAndIsIdempotent ==
  /\ dpc \in {"once", "twice"} =>
        d_once = FirstOfEachKey(d_in) /\ IsSubsequence(d_once, d_in)
  /\ dpc = "twice" => d_twice = d_once

\* a list where an item was dropped for an earlier one that differs from it
\* in case or blanks, and two items were kept
C10_Witness ==
  /\ dpc = "twice"
  /\ Len(d_once) >= 2
  /\ d_twice = d_once
  /\ \E i, j \in 1..Len(d_in) :
        /\ i < j
        /\ d_in[i].name # d_in[j].name
        /\ ClaimKey(d_in[i]) = ClaimKey(d_in[j])
        /\ d_in[j] \notin Range(d_once)

(***************************************************************************)
(* Properties of the row parsers.                                          *)
(***************************************************************************)
\* the total that the row, line or block explicitly supplies, NoneNum if none:
\* the mapped total cell, a number after the price cell, the total group, the
\* total field
SuppliedTotal ==
  CASE fpc = "mapped_row_done" ->
         IF arg.total_mapped THEN arg.total ELSE NoneNum
    [] fpc = "row_values_done" ->
         LET qty_k == FirstNumber(arg, 1..Len(arg))
             price_k == FirstNumber(arg, (qty_k + 2)..Len(arg))
             total_k == IF price_k = 0 THEN 0
                        ELSE FirstNumber(arg, (price_k + 1)..Len(arg))
         IN  IF total_k = 0 THEN NoneNum ELSE arg[total_k]
    [] fpc = "line_done" -> arg.total
    [] fpc = "block_done" ->
         IF arg.total = Absent THEN NoneNum ELSE arg.total
    [] OTHER -> NoneNum

\* C11 as stated: a returned item whose row or line did not supply a total has
\* total = qty * price; a total that was supplied is kept as given.
C11_TotalIsQtyTimesPrice ==
  fpc \in {"mapped_row_done", "row_values_done", "line_done", "block_done"}
  /\ ret.item =>
     IF SuppliedTotal = NoneNum
       THEN ret.total = ret.qty * ret.price
       ELSE ret.total = SuppliedTotal

(***************************************************************************)
(* Properties of _parse_number.                                            *)
(***************************************************************************)
\* the reference parser of C12
ReferenceNumber(value) ==
  LET cleaned == SelectSeq(value, KeptByCleaning)
      commas == CountOf(cleaned, Comma)
      separated ==
        IF commas > 0 /\ CountOf(cleaned, Dot) > 0 THEN Without(cleaned, Comma)
        ELSE IF commas = 1 /\ Len(SelectSeq(AfterLast(cleaned, Comma), IsDigit)) <= 2
          THEN Replaced(cleaned, Comma, Dot)
        ELSE Without(cleaned, Comma)
      stripped == SelectSeq(separated, LAMBDA c : ~IsSpace(c))
  IN  PyFloat(stripped)

\* C12 as stated: for every input string parse_number equals the reference
\* parser: keep digits, '.', ',', whitespace and '-'; with both '.' and ','
\* remove the commas; with commas only, one comma followed by at most 2 digits
\* is the decimal point, otherwise the commas are removed; strip all whitespace
\* (spaces, tabs, no-break spaces); the number, or null if nothing parseable
\* remains.
C12_ParseNumberIsReference ==
  fpc = "parse_number_done" => ret = ReferenceNumber(arg)


(***************************************************************************)
(* C13, C14: column identification.                                        *)
(***************************************************************************)
\* the synonym lists a finished identification was run with
ClaimPatterns ==
  CASE fpc = "universal_columns" -> column_synonyms
    [] fpc = "commercial_columns" -> commercial_header_patterns
    [] fpc = "competitive_columns" -> competitive_header_patterns
    [] fpc = "invoice_columns" -> invoice_header_words

ColumnsIdentified ==
  fpc \in {"universal_columns", "commercial_columns", "competitive_columns",
           "invoice_columns"}

\* the fields of which the normalised header cell is a listed synonym
SynonymFields(patterns, cell) ==
  {patterns[k].field : k \in {k \in 1..Len(patterns) :
      CleanHeader(cell) \in {Lower(w) : w \in patterns[k].words}}}

\* {number:0, name:1, qty:2, unit:3, price:4, total:5}
DocumentedMapping ==
  [f \in {"number", "name", "qty", "unit", "price", "total"} |->
     CASE f = "number" -> 0 [] f = "name" -> 1 [] f = "qty" -> 2
       [] f = "unit" -> 3 [] f = "price" -> 4 [] f = "total" -> 5]

\* C13: after header-based column identification by any strategy, a header
\* cell whose normalised text is a listed synonym of exactly one field F, in
\* a row with no other synonym of F, is mapped to F at its column index; and
\* the documented header row resolves to the documented mapping.
C13_SynonymHeadersAreMapped ==
  ColumnsIdentified =>
    /\ \A i \in 1..Len(arg) :
          LET fields == SynonymFields(ClaimPatterns, arg[i])
          IN  \A F \in fields :
                ( /\ fields = {F}
                  /\ \A j \in 1..Len(arg) :
                        j # i => F \notin SynonymFields(ClaimPatterns, arg[j]) )
                => /\ ~ret.none
                   /\ F \in DOMAIN ret.mapping
                   /\ ret.mapping[F] = i - 1
    /\ arg = DocumentedHeaders => ret = SomeMapping(DocumentedMapping)

\* C14: a column identifier returns a mapping (not None) only if the mapping
\* holds the name field and at least one of the numeric fields qty, price,
\* total.
C14_MappingHasNameAndNumber ==
  (ColumnsIdentified /\ ~ret.none) =>
    /\ "name" \in DOMAIN ret.mapping
    /\ {"qty", "price", "total"} \cap DOMAIN ret.mapping # {}

(***************************************************************************)
(* C15: the 13-column over-segmented layout.                               *)
(***************************************************************************)
RECURSIVE JoinNonEmpty(_, _)
\* the texts of `cells` that are not empty, joined by single spaces
JoinNonEmpty(name, cells) ==
  IF cells = <<>> THEN name
  ELSE LET text == IF Head(cells).nan THEN <<>> ELSE Collapse(Head(cells).text)
       IN  JoinNonEmpty(IF text = <<>> THEN name ELSE name \o <<32>> \o text,
                        Tail(cells))

\* the name cell (column 1) joined with the non-empty fragment cells
\* (columns 2 to 4) of a row of the documented layout
DocumentedName(row) == JoinNonEmpty(Collapse(row[2].text), SubSeq(row, 3, 5))

\* C15: for a 13-column table of the documented over-segmented layout, every
\* item of the precise table parser has as name the name cell joined with
\* the non-empty following name-fragment cells only (nothing of the qty,
\* unit, price or total cell), the value of column 8 as price and the value
\* of column 10 as total.
C15_OverSegmentedRowIsReassembled ==
  fpc = "extract_from_table_done" =>
    \A k \in 1..Len(ret) :
       LET row == arg.rows[1]
       IN  /\ ret[k].name = DocumentedName(row)
           /\ ret[k].price = _parse_number(row[9].text)
           /\ ~row[11].nan => ret[k].total = _parse_number(row[11].text)

(***************************************************************************)
(* C16: the text-quality gate.                                             *)
(***************************************************************************)
QualityChecked == fpc = "check_text_quality_done"

\* the number of key words that occur in a text, for every text
KeyWordCount == [t \in QualityTexts |-> found_words(t)]

\* the length of a text without its surrounding whitespace, for every text
StrippedLength == [t \in QualityTexts |-> Len(Strip(t))]

\* no table of the list has more than 1 row and more than 2 columns
NoValidTable(table_list) ==
  \A k \in 1..Len(table_list) :
     ~(table_list[k].rows > 1 /\ table_list[k].columns > 2)

\* C16 as stated: needs_ocr is true exactly when the text has fewer than 100
\* characters, or fewer than 2 of the six key words occur in it, or none of
\* the tables has more than 1 row and more than 2 columns.
C16_GateAsStated ==
  QualityChecked =>
    ( ret.needs_ocr <=>
        \/ Len(arg.text) < 100
        \/ KeyWordCount[arg.text] < 2
        \/ NoValidTable(arg.tables) )

\* C16, amended: needs_ocr is true exactly when the text without its
\* surrounding whitespace has fewer than 100 characters, or fewer than 2 of
\* the six key words occur in it, or there are tables and none of them has
\* more than 1 row and more than 2 columns; a 40-character text without key
\* words gives true, a 500-character text with 4 key words and one table of
\* 3 rows and 4 columns gives false.
C16_GateOnStrippedTextAndTables ==
  QualityChecked =>
    /\ ret.needs_ocr <=>
         \/ StrippedLength[arg.text] < 100
         \/ KeyWordCount[arg.text] < 2
         \/ (arg.tables # <<>> /\ NoValidTable(arg.tables))
    /\ (Len(arg.text) = 40 /\ KeyWordCount[arg.text] = 0) => ret.needs_ocr
    /\ ( /\ Len(arg.text) = 500 /\ KeyWordCount[arg.text] = 4
         /\ arg.tables = << [rows |-> 3, columns |-> 4] >> ) => ~ret.needs_ocr

\* a 500-character text with 4 key words and one table of 3 rows and 4
\* columns was checked and needs no OCR
C16_Witness ==
  /\ QualityChecked
  /\ Len(arg.text) = 500 /\ KeyWordCount[arg.text] = 4
  /\ arg.tables = << [rows |-> 3, columns |-> 4] >>
  /\ ~ret.needs_ocr

(***************************************************************************)
(* C17: the enhancement appends to the text and never replaces it.         *)
(***************************************************************************)
TextEnhanced == fpc = "enhance_pdf_text_done"

\* the number of page tags in what follows the original text
AppendedBlocks ==
  Cardinality({i \in (Len(arg.text) + 1)..(Len(ret.text) - Len(TagOpen) + 1) :
                 SubSeq(ret.text, i, i + Len(TagOpen) - 1) = TagOpen})

\* image extraction or OCR fails: no image, no reader, or every image raises
OcrFails ==
  \/ arg.reader = "None"
  \/ arg.images = <<>>
  \/ \A k \in 1..Len(arg.images) : arg.images[k].raises

\* no OCR block was recognised: the OCR fails, or the text recognised in
\* every image is empty
NothingRecognised ==
  \/ OcrFails
  \/ \A k \in 1..Len(arg.images) :
        process_image_with_ocr(arg.reader, arg.images[k]) = <<>>

\* C17: the text returned by enhance_pdf_text has the original text as an
\* unmodified prefix, equals the original text when no OCR block was
\* recognised (no image, a failing OCR, no reader), and ocr_additions is the
\* number of page-tagged blocks appended.
C17_EnhanceAppendsOnly ==
  TextEnhanced =>
    /\ Len(ret.text) >= Len(arg.text)
    /\ SubSeq(ret.text, 1, Len(arg.text)) = arg.text
    /\ NothingRecognised => ret.text = arg.text
    /\ ret.info.ocr_additions = AppendedBlocks

\* two recognised blocks were appended to a text that is not empty
C17_Witness ==
  /\ TextEnhanced
  /\ arg.text # <<>>
  /\ ret.info.ocr_additions = 2
  /\ Len(ret.text) > Len(arg.text)

(***************************************************************************)
(* C18: the OCR enhancer runs only behind the quality gate.                *)
(***************************************************************************)
\* a PDF is being processed by parse_document or parse_pdf_file
Processing == entry # "None"

\* C18 as stated: while a document is processed, enhance_pdf_text has been
\* called for it only if needs_ocr of the quality check is true for the text
\* and the tables extracted from it.
C18_EnhancerOnlyBehindGate ==
  (Processing /\ enhance_calls > 0) => NeedsOcr(doc)

(***************************************************************************)
(* C19: enable_ocr=False keeps OCR away from the document.                 *)
(***************************************************************************)
\* C19 as stated: while parse_pdf_file runs with enable_ocr=False,
\* enhance_pdf_text is never called and the text of the document, once
\* extracted, stays the extracted text, whatever use_ocr is.
C19_DisabledOcrIsNeverInvoked ==
  (entry = "parse_pdf_file" /\ enable_ocr = "False") =>
    /\ enhance_calls = 0
    /\ opc # "extract" => doc_text = doc.text

(***************************************************************************)
(* C20: a failing OCR engine leaves the parser with OCR disabled.          *)
(***************************************************************************)
\* the last initialisation of the OCR engine failed
EngineFailed == engine \in {"reader_fails", "import_fails"}

\* C20 as stated: once the parser is constructed and the initialisation of
\* the OCR engine has failed, use_ocr is false, get_ocr_status reports
\* 'disabled', and no document gets an OCR call.
C20_FailedEngineDisablesOcr ==
  (EngineFailed /\ opc # "new") =>
    /\ ~use_ocr
    /\ status # "active"
    /\ enhance_calls = 0

(***************************************************************************)
(* C26: the statistics of the result are those of best_items.              *)
(***************************************************************************)
\* C26 as stated: in every result of parse_document, count is the number of
\* items of best_items, total_cost the sum of their totals and avg_confidence
\* the mean of their confidences, whichever strategy was selected.
C26_CountIsNumberOfBestItems ==
  pc = "done" =>
    /\ count = Len(best_items)
    /\ total_cost = TotalCost(best_items)
    /\ avg_confidence = AvgConfidence(best_items)

(***************************************************************************)
(* C27: the message that no parser found product rows.                     *)
(***************************************************************************)
\* C27 as stated: the recommendations of a result hold the message that no
\* parser found product rows only when best_items is empty.
C27_NothingFoundOnlyWithoutItems ==
  (pc = "done" /\ "no_parser_found_items" \in Range(recommendations)) =>
    best_items = <<>>

(***************************************************************************)
(* C28: parse_pdf_file enhances a document at most once.                   *)
(***************************************************************************)
\* the number of page-tagged blocks in a text
TaggedBlocks(t) ==
  Cardinality({i \in 1..(Len(t) - Len(TagOpen) + 1) :
                 SubSeq(t, i, i + Len(TagOpen) - 1) = TagOpen})

\* C28 as stated: while parse_pdf_file processes a document with OCR enabled,
\* enhance_pdf_text is called for it at most once, and the text handed to the
\* strategies holds at most one page-tagged block for every image of the PDF.
C28_EnhancedAtMostOnce ==
  (entry = "parse_pdf_file" /\ enable_ocr = "True") =>
    /\ enhance_calls <= 1
    /\ TaggedBlocks(doc_text) <= Len(doc.images)

(***************************************************************************)
(* C29: use_ocr, the extractor and the status stay consistent.             *)
(***************************************************************************)
\* use_ocr is true exactly when enhanced_extractor is present
OcrConsistent == use_ocr <=> ~enhanced_extractor.none

\* C29: after the construction and after any calls of toggle_ocr, whether
\* building the extractor works or fails, use_ocr is true exactly when
\* enhanced_extractor is present; get_ocr_status reports 'active' exactly
\* then; and a toggle_ocr that returns False was an enabling attempt that
\* failed and left use_ocr and enhanced_extractor as they were.
C29_OcrStateIsConsistent ==
  /\ [](OcrConsistent)
  /\ [][GetOcrStatus => (status' = "active" <=> (use_ocr /\ ~enhanced_extractor.none))]_vars
  /\ [][(ToggleOcr /\ toggled'.returned = "False") =>
          /\ toggled'.enable /\ ~use_ocr
          /\ engine' = "import_fails"
          /\ UNCHANGED << use_ocr, enhanced_extractor >>]_vars

\* an enabling attempt failed on a parser whose construction had left OCR
\* disabled, and the status was asked for
C29_Witness ==
  /\ toggled.enable /\ toggled.returned = "False"
  /\ ~use_ocr /\ enhanced_extractor.none
  /\ status = "disabled"

(***************************************************************************)
(* C21: the document type of a result is the classifier's score vector.    *)
(***************************************************************************)
\* the sum of the numerators of the four scores
ScoreSum(document_types) ==
  document_types.invoice[1] + document_types.commercial_proposal[1]
    + document_types.competitive_document[1] + document_types.contract[1]

\* C21 as stated: the document_type of the result of parse_document is the
\* output of the classifier, one score for each of the four categories, each
\* the count of the category over the total count, so that the scores sum to
\* 1 when a key word matches.
C21_DocumentTypeIsScoreVector ==
  fpc = "document_type_done" =>
    /\ ret.kind = "scores"
    /\ ret.scores = detect_document_type(arg.text)
    /\ (\E c \in DOMAIN ret.scores : ret.scores[c][1] > 0) =>
          ScoreSum(ret.scores) = ret.scores.invoice[2]

\* the steps of a run of parse_document or parse_pdf_file
ParseSteps ==
  CallParsePdfFile \/ ExtractTextAndTables \/ CallParseDocument
    \/ ParseDocument \/ FileInfo \/ ReturnToCaller

\* the text the strategies parsed and the OCR record of the run in progress
\* are those of the same document parsed alone
SameAsAlone ==
  LET alone == parse_document_alone(doc, pdf_path, use_ocr, enhanced_extractor)
  IN  /\ doc_text = alone.text
      /\ ocr_info = alone.ocr_info
      /\ enhance_calls = alone.enhance_calls

\* C22: parse_document holds no cross-document state: whatever documents the
\* parser object has parsed before, a call of parse_document that has returned
\* gave what the same document gives on a parser object with the same OCR
\* setting that has parsed nothing, and no step of a run changes the OCR
\* setting or anything else the object keeps.
C22_NoCrossDocumentState ==
  /\ []((opc = "returned" /\ entry = "parse_document") => SameAsAlone)
  /\ [][ParseSteps => UNCHANGED << engine, use_ocr, enhanced_extractor,
                                   status, toggled >>]_vars

\* a second document has been parsed by the same object, with OCR adding text
C22_Witness ==
  /\ opc = "returned"
  /\ entry = "parse_document"
  /\ parsed >= 1
  /\ ocr_info # <<>>
  /\ SameAsAlone

\* the items of the blocks of `blocks` that do not fail, in their order
RECURSIVE ItemsOfOtherBlocks(_)
ItemsOfOtherBlocks(blocks) ==
  IF blocks = <<>> THEN <<>>
  ELSE LET parsed_block == _parse_structured_block(Head(blocks))
       IN  (IF parsed_block.item THEN << parsed_block >> ELSE <<>>)
             \o ItemsOfOtherBlocks(Tail(blocks))

\* C23: a failure while processing one unit (here one structured text block
\* of the competitive strategy) is caught and only that unit is skipped: the
\* strategy ends by returning the items of its other blocks.
C23_OnlyTheFailingUnitIsSkipped ==
  fpc \in {"strategy_returned", "strategy_raised"} =>
    /\ ~ret.raised
    /\ ret.items = ItemsOfOtherBlocks(arg)

\* every item of `items` extracted by `higher` has a greater confidence than
\* every item extracted by `lower`
Above(items, higher, lower) ==
  \A i, j \in 1..Len(items) :
     (items[i].method = higher /\ items[j].method = lower)
        => items[i].confidence > items[j].confidence

\* C24: within each strategy an item from a table with a known column
\* mapping has a greater confidence than an item from a free-text regex
\* match, which has a greater confidence than an item from the unstructured
\* content fallback.
C24_ConfidenceFollowsMethod ==
  fpc = "units_done" =>
    /\ Above(ret.items, "mapping", "regex")
    /\ Above(ret.items, "regex", "content")

\* the first pattern, in list order, that matches the line; 0 when none does
FirstMatching(matches) ==
  IF \E k \in 1..PatternCount : matches[k].matched
    THEN CHOOSE k \in 1..PatternCount :
           matches[k].matched /\ \A j \in 1..(k - 1) : ~matches[j].matched
    ELSE 0

\* C25: the patterns are tried in list order and the first pattern that
\* matches the line decides the outcome for the line: the item, if any, is
\* built from the groups of that pattern, and no later pattern produces an
\* item from the line.
C25_FirstMatchingPatternWins ==
  fpc = "line_returned" =>
    LET first == FirstMatching(arg)
    IN  IF first = 0
          THEN ~ret.found
          ELSE /\ ret.found => ret.by = first
               /\ ret.found = ItemOfMatch(first, arg[first]).found

\* C30: document A (file 1) and then document B (file 2) are submitted, each
\* in its own ProcessingThread; once both threads have finished and their
\* completion signals are handled, current_document and current_items of the
\* window are those of B, whatever the order of the signals.
C30_LastSubmittedDocumentIsShown ==
  ( /\ app = "running"
    /\ threads[1] = "finished"
    /\ threads[2] = "finished"
    /\ processing_thread = 2
    /\ events = <<>> )
  => /\ current_document = 2
     /\ current_items = ItemsOf(2)
====
